---- MODULE Spec2Model ----
(***************************************************************************)
(* GastOn backend: calendar utilities (utils/dateHelpers.js), the expense  *)
(* store and its reports (models/Expense.js) and the CRUD services over    *)
(* categorias, nombres_gastos and gastos.                                  *)
(*                                                                         *)
(* Conventions.                                                            *)
(*  - A date string 'YYYY-MM-DD' is the triple <<y, m, d>>.                *)
(*  - A JavaScript Date is its time value, counted here in minutes since   *)
(*    the epoch (UTC).  Every instant the code compares is a local         *)
(*    midnight, a UTC midnight or an end-of-day 23:59:59.999, so dropping  *)
(*    the seconds does not change any comparison.                          *)
(*  - tz is the server's zone, named by its standard offset from UTC in    *)
(*    minutes, east positive; SummerTime gives its daylight saving.        *)
(*  - Stored amounts are whole cents; an amount in a request body is in   *)
(*    tenths of a cent, so that rounding to two decimals has work to do.   *)
(***************************************************************************)
EXTENDS Integers, Sequences, FiniteSets, TLC

VARIABLES
  tz,              \* server zone: minutes east of UTC
  now,             \* the current instant (new Date(), Date.now())
  categorias,      \* table categorias: id -> row
  nombres_gastos,  \* table nombres_gastos: id -> row
  gastos,          \* table gastos: id -> row
  out,             \* the last completed call (read-only helper, or the
                   \* rate limiter) and its result
  proc,            \* the request each server task is handling, and where
  serial,          \* next value of each table's id sequence
  issued,          \* number of write requests received so far
  requests,        \* the Map of basicRateLimit: client -> timestamps
  passed           \* the instants of each client's requests handed to next()

tables == <<categorias, nombres_gastos, gastos>>
control == <<proc, serial, issued>>
limiter == <<requests, passed>>
vars == <<tz, now, categorias, nombres_gastos, gastos, out, proc, serial,
          issued, requests, passed>>

(***************************************************************************)
(* Bounds of the model                                                     *)
(***************************************************************************)
\* number of consecutive calendar days in each window of input dates
DateSpan == 9
\* largest number of stored expenses in the report specification
MaxGastos == 2
\* number of write requests received in one behaviour
MaxRequests == 3
\* basicRateLimit(maxRequests, windowMs): the two arguments of the model's
\* middleware, and the instants the clock moves through after the start
maxRequests == 2
windowMs == 3
MaxElapsed == 5

(***************************************************************************)
(* ECMAScript Date arithmetic                                              *)
(***************************************************************************)
MinutesPerDay == 1440

\* MakeDay(y, m, d): days since 1970-01-01 of a civil date; linear in d, so
\* a day-of-month outside the month rolls over as Date.prototype.setDate does.
MakeDay(y, m, d) ==
  LET yy  == IF m <= 2 THEN y - 1 ELSE y
      era == yy \div 400
      yoe == yy - era * 400
      mp  == IF m > 2 THEN m - 3 ELSE m + 9
      doy == (153 * mp + 2) \div 5 + d - 1
      doe == yoe * 365 + yoe \div 4 - yoe \div 100 + doy
  IN  era * 146097 + doe - 719468

\* YearFromTime / MonthFromTime / DateFromTime of a day number.
CivilFromDays(z) ==
  LET zz  == z + 719468
      era == zz \div 146097
      doe == zz - era * 146097
      yoe == (doe - doe \div 1460 + doe \div 36524 - doe \div 146096) \div 365
      doy == doe - (365 * yoe + yoe \div 4 - yoe \div 100)
      mp  == (5 * doy + 2) \div 153
      d   == doy - (153 * mp + 2) \div 5 + 1
      m   == IF mp < 10 THEN mp + 3 ELSE mp - 9
      y   == yoe + era * 400 + (IF m <= 2 THEN 1 ELSE 0)
  IN  <<y, m, d>>

DayNumber(s) == MakeDay(s[1], s[2], s[3])

\* the calendar date n days after date string s
AddDays(s, n) == CivilFromDays(DayNumber(s) + n)

\* daylight saving of the server zones.  Madrid's clocks are one hour ahead
\* of its standard offset from 01:00 UTC of the last Sunday of March to
\* 01:00 UTC of the last Sunday of October; Buenos Aires, UTC and Tokyo keep
\* one offset all year.  Each period is <<first day, last day>>.
SummerTime(zone) ==
  IF zone = 60
    THEN {<<MakeDay(2024, 3, 31), MakeDay(2024, 10, 27)>>,
          <<MakeDay(2025, 3, 30), MakeDay(2025, 10, 26)>>}
    ELSE {}

\* the offset in force at instant t, and at the local wall-clock time w
OffsetAt(t, zone) ==
  IF \E s \in SummerTime(zone) :
       s[1] * MinutesPerDay + 60 <= t /\ t < s[2] * MinutesPerDay + 60
    THEN zone + 60 ELSE zone

OffsetAtWall(w, zone) ==
  IF \E s \in SummerTime(zone) :
       /\ s[1] * MinutesPerDay + 60 + zone + 60 <= w
       /\ w < s[2] * MinutesPerDay + 60 + zone + 60
    THEN zone + 60 ELSE zone

\* the local wall-clock time of instant t, and the instant of the local
\* wall-clock time w, in the server's zone
LocalTime(t, zone) == t + OffsetAt(t, zone)
UTCTime(w, zone) == w - OffsetAtWall(w, zone)

\* Date.prototype.getDay: 0 = Sunday ... 6 = Saturday, in local time
getDay(t, zone) == ((LocalTime(t, zone) \div MinutesPerDay) + 4) % 7

\* Date.prototype.getDate: day of the month, in local time
getDate(t, zone) == CivilFromDays(LocalTime(t, zone) \div MinutesPerDay)[3]

\* Date.prototype.setDate(dom): same local month and time of day
setDate(t, dom, zone) ==
  LET lt == LocalTime(t, zone)
      c  == CivilFromDays(lt \div MinutesPerDay)
  IN  UTCTime(MakeDay(c[1], c[2], dom) * MinutesPerDay + (lt % MinutesPerDay), zone)

\* new Date(year, monthIndex, day): the day number of that local date; a
\* month index outside 0..11 carries into the year and a day outside the
\* month into the neighbouring months
LocalDate(year, monthIndex, day) ==
  LET index == year * 12 + monthIndex
  IN  MakeDay(index \div 12, (index % 12) + 1, day)

\* Date.prototype.toISOString().split('T')[0]: the UTC calendar date
toISODate(t) == CivilFromDays(t \div MinutesPerDay)

(***************************************************************************)
(* utils/dateHelpers.js                                                    *)
(***************************************************************************)
\* formatDateToString(date): date.toISOString().split('T')[0]
formatDateToString(date, zone) == toISODate(date)

\* new Date(s + 'T00:00:00') is a valid Date: s has the form YYYY-MM-DD with
\* a month 01..12 and a day 01..31 (a text of another form is modelled by a
\* tuple that is not a triple); a day past the end of its month rolls over
\* into the next month
ParsesAsDate(s) == Len(s) = 3 /\ s[2] \in 1..12 /\ s[3] \in 1..31

\* parseDateString(s): new Date(s + 'T00:00:00'), local midnight of s, for
\* an s that parses (the function throws for any other)
parseDateString(s, zone) == UTCTime(DayNumber(s) * MinutesPerDay, zone)

\* a mutant: the loop starts one day late
generateWeekDates_offByOne(mondayDate, zone) ==
  [i \in 1..7 |->
     formatDateToString(
       setDate(mondayDate, getDate(mondayDate, zone) + i, zone), zone)]

\* generateWeekDates(mondayDate): 7 date strings from mondayDate on
generateWeekDates(mondayDate, zone) ==
  [i \in 1..7 |->
     formatDateToString(
       setDate(mondayDate, getDate(mondayDate, zone) + (i - 1), zone), zone)]

\* getWeekDates(inputDate) for a date string
getWeekDates(inputDate, zone) ==
  LET date         == parseDateString(inputDate, zone)
      dayOfWeek    == getDay(date, zone)
      mondayOffset == IF dayOfWeek = 0 THEN -6 ELSE 1 - dayOfWeek
      weekStart    == setDate(date, getDate(date, zone) + mondayOffset, zone)
      weekEnd      == setDate(weekStart, getDate(weekStart, zone) + 6, zone)
  IN  [weekStart |-> formatDateToString(weekStart, zone),
       weekEnd   |-> formatDateToString(weekEnd, zone),
       dates     |-> generateWeekDates(weekStart, zone)]

\* a variant: the month's days are read by their local fields
getMonthDates_local(inputDate, zone) ==
  LET date == parseDateString(inputDate, zone)
      c    == CivilFromDays(LocalTime(date, zone) \div MinutesPerDay)
  IN  [monthStart |-> CivilFromDays(LocalDate(c[1], c[2] - 1, 1)),
       monthEnd   |-> CivilFromDays(LocalDate(c[1], c[2], 0))]

\* getMonthDates(inputDate) for a date string: the local midnights of day 1
\* of the date's month and of day 0 of the next month, formatted
getMonthDates(inputDate, zone) ==
  LET date == parseDateString(inputDate, zone)
      c    == CivilFromDays(LocalTime(date, zone) \div MinutesPerDay)
      monthStart == UTCTime(LocalDate(c[1], c[2] - 1, 1) * MinutesPerDay, zone)
      monthEnd   == UTCTime(LocalDate(c[1], c[2], 0) * MinutesPerDay, zone)
  IN  [monthStart |-> formatDateToString(monthStart, zone),
       monthEnd   |-> formatDateToString(monthEnd, zone)]

\* Math.ceil(a / b) for b > 0
CeilDiv(a, b) == -((-a) \div b)

\* a mutant: the end of the current UTC day
EndOfToday_utc(t, zone) ==
  (t \div MinutesPerDay) * MinutesPerDay + (MinutesPerDay - 1)

\* today.setHours(23, 59, 59, 999): the end of the current local day
EndOfToday(t, zone) ==
  UTCTime((LocalTime(t, zone) \div MinutesPerDay) * MinutesPerDay
            + (MinutesPerDay - 1), zone)

\* a mutant: a start equal to the end is refused too
DateRangeErrors_strict(start, end, maxDays, today) ==
  LET daysDiff == CeilDiv(end - start, MinutesPerDay)
  IN     (IF start >= end
            THEN <<"Start date must be before or equal to end date">>
            ELSE <<>>)
      \o (IF daysDiff > maxDays
            THEN <<"Date range cannot exceed maxDays days">> ELSE <<>>)
      \o (IF start > today
            THEN <<"Start date cannot be in the future">> ELSE <<>>)

\* a mutant: a start in the future is let through
DateRangeErrors_anyStart(start, end, maxDays, today) ==
  LET daysDiff == CeilDiv(end - start, MinutesPerDay)
  IN     (IF start > end
            THEN <<"Start date must be before or equal to end date">>
            ELSE <<>>)
      \o (IF daysDiff > maxDays
            THEN <<"Date range cannot exceed maxDays days">> ELSE <<>>)

\* the checks of validateDateRange on the parsed start and end, today being
\* the end of the current day
DateRangeErrors(start, end, maxDays, today) ==
  LET daysDiff == CeilDiv(end - start, MinutesPerDay)
  IN     (IF start > end
            THEN <<"Start date must be before or equal to end date">>
            ELSE <<>>)
      \o (IF daysDiff > maxDays
            THEN <<"Date range cannot exceed maxDays days">> ELSE <<>>)
      \o (IF start > today
            THEN <<"Start date cannot be in the future">> ELSE <<>>)

\* validateDateRange(startDate, endDate, maxDays); a parseDateString that
\* throws is caught and reported as the only error
validateDateRange(startDate, endDate, maxDays, t, zone) ==
  LET errors ==
        IF ParsesAsDate(startDate) /\ ParsesAsDate(endDate)
          THEN DateRangeErrors(parseDateString(startDate, zone),
                               parseDateString(endDate, zone),
                               maxDays, EndOfToday(t, zone))
          ELSE <<"Invalid date format. Use YYYY-MM-DD">>
  IN  [isValid |-> errors = <<>>, errors |-> errors]

\* the default of validateDateRange's maxDays parameter
DefaultMaxDays == 365

(***************************************************************************)
(* The store: db/migrations/001_initial_schema.sql                         *)
(***************************************************************************)
EmptyTable == [i \in {} |-> 0]

\* SQL NULL in an integer column, and in a text column (a text is a sequence
\* of characters; no character is "NULL")
NullId == 0
NullText == <<"NULL">>

\* a name is a sequence of characters
SeedCategorias ==
  (1 :> [nombre |-> <<"A", "b">>]) @@ (2 :> [nombre |-> <<"B", "a">>])

SeedNombresGastos ==
     (1 :> [nombre |-> <<"A", "b">>, categoria_sugerida_id |-> 1])
  @@ (2 :> [nombre |-> <<"B", "a">>, categoria_sugerida_id |-> 2])

\* DATE comparison fecha <= other
DateLE(a, b) == DayNumber(a) <= DayNumber(b)

\* a mutant: the upper end of the range is excluded
WhereFechaBetween_exclusiveEnd(fecha, startDate, endDate) ==
  DateLE(startDate, fecha) /\ DateLE(fecha, endDate) /\ fecha # endDate

\* WHERE g.fecha >= $1 AND g.fecha <= $2
WhereFechaBetween(fecha, startDate, endDate) ==
  DateLE(startDate, fecha) /\ DateLE(fecha, endDate)

\* FROM gastos g JOIN categorias c ON ... JOIN nombres_gastos ng ON ...
JoinedGastos ==
  {id \in DOMAIN gastos :
     /\ gastos[id].categoria_id \in DOMAIN categorias
     /\ gastos[id].nombre_gasto_id \in DOMAIN nombres_gastos}

\* every sequence that lists the ids of S once
RECURSIVE Orderings(_)
Orderings(S) ==
  IF S = {} THEN {<<>>}
  ELSE UNION {{<<x>> \o t : t \in Orderings(S \ {x})} : x \in S}

\* ORDER BY g.fecha, g.created_at (ascending or descending): every order of
\* the rows the clause allows; rows equal in both columns come in any order
OrderByFechaCreated(S, desc) ==
  LET Before(a, b) ==
        \/ DayNumber(gastos[a].fecha) < DayNumber(gastos[b].fecha)
        \/ /\ gastos[a].fecha = gastos[b].fecha
           /\ gastos[a].created_at < gastos[b].created_at
  IN  {q \in Orderings(S) :
         \A i, j \in 1..Len(q) :
           i < j => IF desc THEN ~Before(q[i], q[j]) ELSE ~Before(q[j], q[i])}

(***************************************************************************)
(* models/Expense.js: reports                                              *)
(***************************************************************************)
RECURSIVE SumSeq(_)
SumSeq(q) == IF q = <<>> THEN 0 ELSE Head(q) + SumSeq(Tail(q))

\* formatExpenseWithDetails(row) of the joined row of expense id
formatExpenseWithDetails(id) ==
  LET g == gastos[id]
  IN  [id              |-> id,
       monto           |-> g.monto,
       fecha           |-> g.fecha,
       descripcion     |-> g.descripcion,
       created_at      |-> g.created_at,
       updated_at      |-> g.updated_at,
       categoria_id    |-> g.categoria_id,
       nombre_gasto_id |-> g.nombre_gasto_id,
       categoria       |-> [id     |-> g.categoria_id,
                            nombre |-> categorias[g.categoria_id].nombre],
       nombre_gasto    |-> [id     |-> g.nombre_gasto_id,
                            nombre |-> nombres_gastos[g.nombre_gasto_id].nombre]]

\* the keys of a JavaScript object in insertion order: a key set again keeps
\* its place
RECURSIVE KeysInOrder(_)
KeysInOrder(q) ==
  IF q = <<>> THEN <<>>
  ELSE LET front == KeysInOrder(SubSeq(q, 1, Len(q) - 1))
           last  == q[Len(q)]
       IN  IF \E i \in 1..Len(front) : front[i] = last
             THEN front ELSE Append(front, last)

\* a mutant: the buckets are initialised for the first six dates only
organizeExpensesByDay_sixDays(expenses, dates) ==
  LET six  == SubSeq(dates, 1, 6)
      keys == KeysInOrder(six)
      Key  == {keys[i] : i \in 1..Len(keys)}
  IN  [keys  |-> keys,
       byDay |-> [d \in Key |-> SelectSeq(expenses, LAMBDA e : e.fecha = d)]]

\* organizeExpensesByDay(expenses, dates): the object as its keys in order
\* and the array held under each key
organizeExpensesByDay(expenses, dates) ==
  LET keys == KeysInOrder(dates)
      Key  == {keys[i] : i \in 1..Len(keys)}
  IN  [keys  |-> keys,
       byDay |-> [d \in Key |-> SelectSeq(expenses, LAMBDA e : e.fecha = d)]]

\* findWeeklyExpenses(dateInWeek), rows being the query's result in order
findWeeklyExpenses(dateInWeek, rows, zone) ==
  LET w        == getWeekDates(dateInWeek, zone)
      expenses == [i \in 1..Len(rows) |-> formatExpenseWithDetails(rows[i])]
  IN  [weekStart     |-> w.weekStart,
       weekEnd       |-> w.weekEnd,
       dates         |-> w.dates,
       expenses      |-> organizeExpensesByDay(expenses, w.dates),
       weekTotal     |-> SumSeq([i \in 1..Len(expenses) |-> expenses[i].monto]),
       totalExpenses |-> Len(expenses)]

\* the rows of findWeeklyExpenses's query for the week of dateInWeek
WeeklyRows(dateInWeek, zone) ==
  LET w == getWeekDates(dateInWeek, zone)
  IN  {id \in JoinedGastos :
         WhereFechaBetween(gastos[id].fecha, w.weekStart, w.weekEnd)}

\* ApiError.badRequest('Invalid date range', errors)
InvalidDateRange(errors) ==
  [ok |-> FALSE, statusCode |-> 400, message |-> "Invalid date range",
   errors |-> errors]

\* the rows of findByDateRange's query, before LIMIT and OFFSET
DateRangeRows(startDate, endDate, options) ==
  {id \in JoinedGastos :
     /\ WhereFechaBetween(gastos[id].fecha, startDate, endDate)
     /\ (options.categoryId # 0 =>
           gastos[id].categoria_id = options.categoryId)}

\* LIMIT and OFFSET of findByDateRange (a zero limit or offset is falsy)
LimitOffset(rows, options) ==
  IF options.limit # 0
    THEN LET from == IF options.offset # 0 THEN options.offset + 1 ELSE 1
             to   == IF from + options.limit - 1 < Len(rows)
                       THEN from + options.limit - 1 ELSE Len(rows)
         IN  SubSeq(rows, from, to)
    ELSE rows

\* findByDateRange(startDate, endDate, options), rows being the query's
\* ordered result before LIMIT and OFFSET
findByDateRange(startDate, endDate, options, rows, t, zone) ==
  LET validation == validateDateRange(startDate, endDate, DefaultMaxDays, t, zone)
      page       == LimitOffset(rows, options)
  IN  IF ~validation.isValid
        THEN InvalidDateRange(validation.errors)
        ELSE [ok   |-> TRUE,
              rows |-> [i \in 1..Len(page) |-> formatExpenseWithDetails(page[i])]]

\* a JavaScript number holding money: NaN, or the exact quotient num / den
\* of whole cents in lowest terms
NaN == [nan |-> TRUE, num |-> 0, den |-> 1]

RECURSIVE Gcd(_, _)
Gcd(a, b) == IF b = 0 THEN a ELSE Gcd(b, a % b)

Num(n, d) ==
  LET g == Gcd(n, d) IN [nan |-> FALSE, num |-> n \div g, den |-> d \div g]

\* an SQL aggregate value: NULL, or a numeric
SqlNull == [null |-> TRUE, num |-> 0, den |-> 1]
SqlNumeric(n, d) == [null |-> FALSE, num |-> n, den |-> d]

\* parseFloat(v) of an SQL value: NaN for null
parseFloat(v) == IF v.null THEN NaN ELSE Num(v.num, v.den)

\* x || 0: NaN and 0 are falsy
OrZero(x) == IF x.nan \/ x.num = 0 THEN Num(0, 1) ELSE x

\* the least and the greatest element of a non-empty set of integers
MinOf(S) == CHOOSE x \in S : \A y \in S : x <= y
MaxOf(S) == CHOOSE x \in S : \A y \in S : y <= x

RECURSIVE SumOver(_, _)
SumOver(S, f) ==
  IF S = {} THEN 0
  ELSE LET x == CHOOSE y \in S : TRUE IN f[x] + SumOver(S \ {x}, f)

\* the row of getStatistics's query: COUNT(*), SUM, AVG, MIN, MAX,
\* COUNT(DISTINCT ...) over the expenses of the range; the aggregates of no
\* row are NULL and the counts 0
StatisticsRow(startDate, endDate) ==
  LET S     == {id \in DOMAIN gastos :
                  WhereFechaBetween(gastos[id].fecha, startDate, endDate)}
      monto == [id \in S |-> gastos[id].monto]
      total == SumOver(S, monto)
  IN  [total_expenses     |-> Cardinality(S),
       total_amount       |-> IF S = {} THEN SqlNull ELSE SqlNumeric(total, 1),
       average_amount     |-> IF S = {} THEN SqlNull
                              ELSE SqlNumeric(total, Cardinality(S)),
       min_amount         |-> IF S = {} THEN SqlNull
                              ELSE SqlNumeric(MinOf({monto[id] : id \in S}), 1),
       max_amount         |-> IF S = {} THEN SqlNull
                              ELSE SqlNumeric(MaxOf({monto[id] : id \in S}), 1),
       categories_used    |-> Cardinality({gastos[id].categoria_id : id \in S}),
       expense_names_used |-> Cardinality({gastos[id].nombre_gasto_id : id \in S})]

\* a mutant: the aggregates are parsed without the '|| 0' default
StatisticsResult_noDefault(stats, startDate, endDate) ==
  [ok             |-> TRUE,
   totalExpenses  |-> stats.total_expenses,
   totalAmount    |-> parseFloat(stats.total_amount),
   averageAmount  |-> parseFloat(stats.average_amount),
   minAmount      |-> parseFloat(stats.min_amount),
   maxAmount      |-> parseFloat(stats.max_amount),
   categoriesUsed |-> stats.categories_used,
   expenseNamesUsed |-> stats.expense_names_used,
   dateRange      |-> [startDate |-> startDate, endDate |-> endDate]]

\* the object getStatistics returns for the row stats of its query
StatisticsResult(stats, startDate, endDate) ==
  [ok             |-> TRUE,
   totalExpenses  |-> stats.total_expenses,
   totalAmount    |-> OrZero(parseFloat(stats.total_amount)),
   averageAmount  |-> OrZero(parseFloat(stats.average_amount)),
   minAmount      |-> OrZero(parseFloat(stats.min_amount)),
   maxAmount      |-> OrZero(parseFloat(stats.max_amount)),
   categoriesUsed |-> stats.categories_used,
   expenseNamesUsed |-> stats.expense_names_used,
   dateRange      |-> [startDate |-> startDate, endDate |-> endDate]]

\* getStatistics(startDate, endDate)
getStatistics(startDate, endDate, t, zone) ==
  LET validation == validateDateRange(startDate, endDate, DefaultMaxDays, t, zone)
  IN  IF ~validation.isValid
        THEN InvalidDateRange(validation.errors)
        ELSE StatisticsResult(StatisticsRow(startDate, endDate), startDate, endDate)

\* a mutant: an inner join, which drops the categories without expenses
CategoriesOfJoin_inner(startDate, endDate) ==
  {c \in DOMAIN categorias :
     \E id \in DOMAIN gastos :
       /\ gastos[id].categoria_id = c
       /\ WhereFechaBetween(gastos[id].fecha, startDate, endDate)}

\* FROM categorias c LEFT JOIN gastos g ON ... GROUP BY c.id: the groups
CategoriesOfJoin(startDate, endDate) == DOMAIN categorias

\* a mutant: the join lacks the range, so every expense of c is counted
CategoryRow_anyDate(c, startDate, endDate) ==
  LET S     == {id \in DOMAIN gastos : gastos[id].categoria_id = c}
      monto == [id \in S |-> gastos[id].monto]
      total == SumOver(S, monto)
  IN  [categoria_id     |-> c,
       categoria_nombre |-> categorias[c].nombre,
       expense_count    |-> Cardinality(S),
       total_amount     |-> IF S = {} THEN SqlNull ELSE SqlNumeric(total, 1),
       average_amount   |-> IF S = {} THEN SqlNull
                            ELSE SqlNumeric(total, Cardinality(S))]

\* the row of getByCategory's query for category c: COUNT(g.id), SUM, AVG
\* over the expenses of c in the range; SUM and AVG of no row are NULL
CategoryRow(c, startDate, endDate) ==
  LET S     == {id \in DOMAIN gastos :
                  /\ gastos[id].categoria_id = c
                  /\ WhereFechaBetween(gastos[id].fecha, startDate, endDate)}
      monto == [id \in S |-> gastos[id].monto]
      total == SumOver(S, monto)
  IN  [categoria_id     |-> c,
       categoria_nombre |-> categorias[c].nombre,
       expense_count    |-> Cardinality(S),
       total_amount     |-> IF S = {} THEN SqlNull ELSE SqlNumeric(total, 1),
       average_amount   |-> IF S = {} THEN SqlNull
                            ELSE SqlNumeric(total, Cardinality(S))]

\* ORDER BY total_amount DESC NULLS LAST, c.nombre ASC: every order of the
\* groups the first key allows (the order of names is the collation's)
OrderByTotalAmount(startDate, endDate) ==
  LET total(c) == CategoryRow(c, startDate, endDate).total_amount
      Before(a, b) ==
        \/ ~total(a).null /\ total(b).null
        \/ ~total(a).null /\ ~total(b).null /\ total(a).num > total(b).num
  IN  {q \in Orderings(CategoriesOfJoin(startDate, endDate)) :
         \A i, j \in 1..Len(q) : i < j => ~Before(q[j], q[i])}

\* getByCategory(startDate, endDate), order being the groups in the order
\* the query returned them
getByCategory(startDate, endDate, order, t, zone) ==
  LET validation ==
        validateDateRange(startDate, endDate, DefaultMaxDays, t, zone)
      row(i) == CategoryRow(order[i], startDate, endDate)
  IN  IF ~validation.isValid
        THEN InvalidDateRange(validation.errors)
        ELSE [ok   |-> TRUE,
              rows |-> [i \in 1..Len(order) |->
                          [categoria     |-> [id     |-> row(i).categoria_id,
                                              nombre |-> row(i).categoria_nombre],
                           expenseCount  |-> row(i).expense_count,
                           totalAmount   |->
                             OrZero(parseFloat(row(i).total_amount)),
                           averageAmount |->
                             OrZero(parseFloat(row(i).average_amount))]]]

(***************************************************************************)
(* Inputs                                                                  *)
(***************************************************************************)
\* server zones: Buenos Aires (UTC-3), UTC, Madrid (UTC+1), Tokyo (UTC+9)
TzOffsets == {-180, 0, 60, 540}

\* two windows of dates: across a year boundary, and across a leap day
WindowStarts == {<<2024, 12, 27>>, <<2024, 2, 25>>}

DateInputs == {AddDays(w, i) : w \in WindowStarts, i \in 0..(DateSpan - 1)}

\* the current instant: noon UTC or late evening UTC of 2025-01-06
NowInputs == {MakeDay(2025, 1, 6) * MinutesPerDay + 720,
              MakeDay(2025, 1, 6) * MinutesPerDay + 1380}

(***************************************************************************)
(* Calendar specification: the pure date functions applied to every input  *)
(***************************************************************************)
NoCall == [op |-> "none"]
\* new Map(): no client has an entry
NoRequests == [ip \in {} |-> <<>>]

\* the server tasks that handle write requests, and a task with no request
Procs == {1, 2}
Idle == [pc |-> "idle"]

\* the id sequences after the seed rows
SeedSerial ==
  [categorias     |-> Cardinality(DOMAIN SeedCategorias) + 1,
   nombres_gastos |-> Cardinality(DOMAIN SeedNombresGastos) + 1,
   gastos         |-> 1]

InitCal ==
  /\ tz \in TzOffsets
  /\ now \in NowInputs
  /\ categorias = SeedCategorias
  /\ nombres_gastos = SeedNombresGastos
  /\ gastos = EmptyTable
  /\ out = NoCall
  /\ proc = [p \in Procs |-> Idle]
  /\ serial = SeedSerial
  /\ issued = 0
  /\ requests = NoRequests
  /\ passed = NoRequests

CallFormatParse(s) ==
  /\ out = NoCall
  /\ out' = [op |-> "formatParse", arg |-> s,
             res |-> formatDateToString(parseDateString(s, tz), tz)]
  /\ UNCHANGED limiter
  /\ UNCHANGED <<tz, now, tables, control>>

CallGetWeekDates(s) ==
  /\ out = NoCall
  /\ out' = [op |-> "getWeekDates", arg |-> s, res |-> getWeekDates(s, tz)]
  /\ UNCHANGED limiter
  /\ UNCHANGED <<tz, now, tables, control>>

\* the texts checked: dates that exist (a leap day among them), days and
\* months that do not, and a text of another form
DateStringInputs ==
  {<<2025, 1, 6>>, <<2024, 2, 29>>, <<2024, 12, 31>>, <<2025, 2, 29>>,
   <<2025, 2, 30>>, <<2025, 4, 31>>, <<2025, 1, 32>>, <<2025, 1, 0>>,
   <<2025, 13, 1>>, <<2025, 0, 10>>, <<2025, 1>>}

\* isValidDateString(dateString): the pattern, a valid Date at local
\* midnight, and its toISOString() date part equal to the text
isValidDateString(dateString, zone) ==
  /\ Len(dateString) = 3
  /\ ParsesAsDate(dateString)
  /\ toISODate(parseDateString(dateString, zone)) = dateString

CallIsValidDateString(s) ==
  /\ out = NoCall
  /\ out' = [op |-> "isValidDateString", arg |-> s,
             res |-> isValidDateString(s, tz)]
  /\ UNCHANGED limiter
  /\ UNCHANGED <<tz, now, tables, control>>

\* new Date(year, monthNum, 0).getDate(): the last day of the month before
\* month index monthNum, indexes outside 0..11 carrying into the year
LastDayOfMonth(year, monthNum) ==
  CivilFromDays(LocalDate(year, monthNum, 0))[3]

\* the range getMonthlyExpenses(month) asks statistics for: month is a pair
\* <<year, monthNum>> for a text of the form YYYY-MM, <<>> when left out
MonthRange(month, t, zone) ==
  LET local == CivilFromDays(LocalTime(t, zone) \div MinutesPerDay)
      ym    == IF month = <<>> THEN <<local[1], local[2]>> ELSE month
  IN  [startDate |-> <<ym[1], ym[2], 1>>,
       endDate   |-> <<ym[1], ym[2], LastDayOfMonth(ym[1], ym[2])>>]

\* months asked for in the calendar specification: January, February of a
\* leap year and of a common year, December, and none
MonthAnchors == {<<2025, 1>>, <<2024, 2>>, <<2025, 2>>, <<2024, 12>>, <<>>}

CallGetMonthDates(s) ==
  /\ out = NoCall
  /\ out' = [op |-> "getMonthDates", arg |-> s, res |-> getMonthDates(s, tz)]
  /\ UNCHANGED limiter
  /\ UNCHANGED <<tz, now, tables, control>>

CallMonthRange(month) ==
  /\ out = NoCall
  /\ out' = [op |-> "getMonthlyExpenses", arg |-> month,
             res |-> MonthRange(month, now, tz)]
  /\ UNCHANGED limiter
  /\ UNCHANGED <<tz, now, tables, control>>

\* starts of the ranges validated: before the clocks go forward and before
\* they go back in Madrid, and the days around the current day
RangeStarts ==
  {<<2024, 3, 28>>, <<2024, 10, 24>>, <<2024, 10, 27>>, <<2025, 1, 5>>,
   <<2025, 1, 6>>, <<2025, 1, 7>>, <<2025, 1, 8>>}

\* the ranges validated, with their maxDays: a week and the default, with
\* spans from a reversed range to one day more than maxDays
ValidateInputs ==
  {<<s, AddDays(s, m + k), m>> :
     s \in RangeStarts, m \in {7, DefaultMaxDays}, k \in {-1, 0, 1}}
  \cup {<<s, AddDays(s, k), 7>> : s \in RangeStarts, k \in {-1, 0}}

CallValidateDateRange(startDate, endDate, maxDays) ==
  /\ out = NoCall
  /\ out' = [op |-> "validateDateRange",
             arg |-> [startDate |-> startDate, endDate |-> endDate,
                      maxDays |-> maxDays],
             res |-> validateDateRange(startDate, endDate, maxDays, now, tz)]
  /\ UNCHANGED limiter
  /\ UNCHANGED <<tz, now, tables, control>>

NextCal ==
  \/ \E s \in DateInputs : CallFormatParse(s)
  \/ \E s \in DateInputs : CallGetWeekDates(s)
  \/ \E r \in ValidateInputs : CallValidateDateRange(r[1], r[2], r[3])
  \/ \E s \in DateStringInputs \cup DateInputs : CallIsValidDateString(s)
  \/ \E s \in DateInputs : CallGetMonthDates(s)
  \/ \E m \in MonthAnchors : CallMonthRange(m)

SpecCal == InitCal /\ [][NextCal]_vars

(***************************************************************************)
(* Report specification: the read-only operations of models/Expense.js on  *)
(* every small store                                                       *)
(***************************************************************************)
\* dates of stored expenses: a Sunday, the Monday after it, the next Sunday
ExpenseDates == <<(<<2024, 12, 29>>), (<<2024, 12, 30>>), (<<2025, 1, 5>>)>>

\* amounts of stored expenses, in cents
MontoInputs == <<150, 2599>>

\* bounds of the ranges asked for
RangeDates == {<<2024, 12, 28>>, <<2024, 12, 29>>, <<2024, 12, 30>>,
               <<2025, 1, 5>>, <<2025, 1, 8>>}

\* the instant the stored expense id was created
CreatedAt(id) == MakeDay(2025, 1, 5) * MinutesPerDay + id

\* the k-th stored row: an amount, a date and a category with its name
NumStoredRows ==
  Len(MontoInputs) * Len(ExpenseDates) * Cardinality(DOMAIN SeedCategorias)

StoredRow(k) ==
  LET m == MontoInputs[(k % Len(MontoInputs)) + 1]
      f == ExpenseDates[((k \div Len(MontoInputs)) % Len(ExpenseDates)) + 1]
      c == (k \div (Len(MontoInputs) * Len(ExpenseDates))) + 1
  IN  [monto |-> m, fecha |-> f, categoria_id |-> c, nombre_gasto_id |-> c,
       descripcion |-> NullText]

\* the stores of at most MaxGastos expenses, one for each multiset of rows
\* (reports do not depend on which of two expenses was created first)
StoredTables ==
  UNION {
    {[id \in 1..n |->
        [monto           |-> StoredRow(ks[id]).monto,
         fecha           |-> StoredRow(ks[id]).fecha,
         categoria_id    |-> StoredRow(ks[id]).categoria_id,
         nombre_gasto_id |-> StoredRow(ks[id]).nombre_gasto_id,
         descripcion     |-> StoredRow(ks[id]).descripcion,
         created_at      |-> CreatedAt(id),
         updated_at      |-> CreatedAt(id)]] :
       ks \in {f \in [1..n -> 0..(NumStoredRows - 1)] :
                 \A i, j \in 1..n : i < j => f[i] <= f[j]}} :
    n \in 0..MaxGastos}

InitReport ==
  /\ tz \in TzOffsets
  /\ now = MakeDay(2025, 1, 6) * MinutesPerDay + 720
  /\ categorias = SeedCategorias
  /\ nombres_gastos = SeedNombresGastos
  /\ gastos \in StoredTables
  /\ out = NoCall
  /\ proc = [p \in Procs |-> Idle]
  /\ serial = SeedSerial
  /\ issued = 0
  /\ requests = NoRequests
  /\ passed = NoRequests

CallFindWeeklyExpenses(dateInWeek) ==
  /\ out = NoCall
  /\ \E rows \in OrderByFechaCreated(WeeklyRows(dateInWeek, tz), FALSE) :
       out' = [op |-> "findWeeklyExpenses", arg |-> dateInWeek,
               res |-> findWeeklyExpenses(dateInWeek, rows, tz)]
  /\ UNCHANGED limiter
  /\ UNCHANGED <<tz, now, tables, control>>

CallFindByDateRange(startDate, endDate, options) ==
  /\ out = NoCall
  /\ \E rows \in OrderByFechaCreated(
                   DateRangeRows(startDate, endDate, options), TRUE) :
       out' = [op |-> "findByDateRange",
               arg |-> [startDate |-> startDate, endDate |-> endDate,
                        options |-> options],
               res |-> findByDateRange(startDate, endDate, options, rows,
                                       now, tz)]
  /\ UNCHANGED limiter
  /\ UNCHANGED <<tz, now, tables, control>>

CallGetStatistics(startDate, endDate) ==
  /\ out = NoCall
  /\ out' = [op |-> "getStatistics",
             arg |-> [startDate |-> startDate, endDate |-> endDate],
             res |-> getStatistics(startDate, endDate, now, tz)]
  /\ UNCHANGED limiter
  /\ UNCHANGED <<tz, now, tables, control>>

CallGetByCategory(startDate, endDate) ==
  /\ out = NoCall
  /\ \E order \in OrderByTotalAmount(startDate, endDate) :
       out' = [op |-> "getByCategory",
               arg |-> [startDate |-> startDate, endDate |-> endDate],
               res |-> getByCategory(startDate, endDate, order, now, tz)]
  /\ UNCHANGED limiter
  /\ UNCHANGED <<tz, now, tables, control>>

\* options of findByDateRange: no filter, a category, the second page of 1
RangeOptions ==
  {[categoryId |-> c, limit |-> 0, offset |-> 0] :
     c \in {0} \cup DOMAIN SeedCategorias}
  \cup {[categoryId |-> 0, limit |-> 1, offset |-> 1]}

NextReport ==
  \/ \E d \in DateInputs : CallFindWeeklyExpenses(d)
  \/ \E s, e \in RangeDates, o \in RangeOptions : CallFindByDateRange(s, e, o)
  \/ \E s, e \in RangeDates : CallGetStatistics(s, e)
  \/ \E s, e \in RangeDates : CallGetByCategory(s, e)

SpecReport == InitReport /\ [][NextReport]_vars

(***************************************************************************)
(* Texts: a name or description is a sequence of characters over           *)
(* a, A, b, B, the non-ASCII letters n~ (small) and N~ (capital), and       *)
(* the space                                                               *)
(***************************************************************************)
\* String.prototype.toLowerCase and toUpperCase, one character
Lower(c) ==
  CASE c = "A" -> "a" [] c = "B" -> "b" [] c = "N~" -> "n~" [] OTHER -> c

Upper(c) ==
  CASE c = "a" -> "A" [] c = "b" -> "B" [] c = "n~" -> "N~" [] OTHER -> c

\* the regular-expression classes \w (ASCII letters, digits, _) and \s
IsWordChar(c) == c \in {"a", "A", "b", "B"}
IsSpace(c) == c = " "

toLowerCase(s) == [i \in 1..Len(s) |-> Lower(s[i])]

\* SQL LOWER(text), taken to fold every letter as toLowerCase does
SqlLower(s) == toLowerCase(s)

RECURSIVE trimStart(_)
trimStart(s) ==
  IF s # <<>> /\ IsSpace(Head(s)) THEN trimStart(Tail(s)) ELSE s

RECURSIVE trimEnd(_)
trimEnd(s) ==
  IF s # <<>> /\ IsSpace(s[Len(s)])
  THEN trimEnd(SubSeq(s, 1, Len(s) - 1))
  ELSE s

\* String.prototype.trim
trim(s) == trimEnd(trimStart(s))

\* position i of s lies inside a match of /\w\S*/g: a match starts at a word
\* character outside a match and runs to the next white space
RECURSIVE InMatch(_, _)
InMatch(s, i) ==
  IF i = 0 \/ IsSpace(s[i]) THEN FALSE
  ELSE IF InMatch(s, i - 1) THEN TRUE
  ELSE IsWordChar(s[i])

\* titleCase(str): each match becomes its first character in upper case
\* followed by the rest in lower case; characters outside a match stay
titleCase(s) ==
  [i \in 1..Len(s) |->
     IF ~InMatch(s, i) THEN s[i]
     ELSE IF InMatch(s, i - 1) THEN Lower(s[i])
     ELSE Upper(s[i])]

(***************************************************************************)
(* The store: constraints and statements of the write operations           *)
(***************************************************************************)
\* the table without row id
Without(table, id) == [i \in DOMAIN table \ {id} |-> table[i]]

\* UNIQUE (nombre): compares the stored text as it is
UniqueNombreViolated(table, nombre, exceptId) ==
  \E i \in DOMAIN table : i # exceptId /\ table[i].nombre = nombre

\* WHERE LOWER(nombre) = LOWER($1) [AND id != $2]
WhereLowerNombre(table, nombre, excludeId) ==
  {i \in DOMAIN table :
     i # excludeId /\ SqlLower(table[i].nombre) = SqlLower(nombre)}

\* a mutant: the foreign keys of gastos are not enforced
GastosForeignKeysHold_unchecked(row) == TRUE

\* gastos.categoria_id REFERENCES categorias(id),
\* gastos.nombre_gasto_id REFERENCES nombres_gastos(id)
GastosForeignKeysHold(row) ==
  /\ row.categoria_id \in DOMAIN categorias
  /\ row.nombre_gasto_id \in DOMAIN nombres_gastos

\* CHECK (monto > 0), CHECK (fecha <= CURRENT_DATE + 1 day); the database
\* clock runs in UTC
GastosChecksHold(row) ==
  /\ row.monto > 0
  /\ DayNumber(row.fecha) <= DayNumber(toISODate(now)) + 1

\* nombres_gastos.categoria_sugerida_id REFERENCES categorias(id), or NULL
NombresGastosForeignKeyHolds(row) ==
  row.categoria_sugerida_id \in DOMAIN categorias \cup {NullId}

\* SELECT COUNT(*) FROM gastos WHERE categoria_id = $1
getExpenseCount(categoryId) ==
  Cardinality({g \in DOMAIN gastos : gastos[g].categoria_id = categoryId})

\* SELECT COUNT(*) FROM nombres_gastos WHERE categoria_sugerida_id = $1
getExpenseNameCount(categoryId) ==
  Cardinality({n \in DOMAIN nombres_gastos :
                 nombres_gastos[n].categoria_sugerida_id = categoryId})

\* SELECT COUNT(*) FROM gastos WHERE nombre_gasto_id = $1
getUsageCount(expenseNameId) ==
  Cardinality({g \in DOMAIN gastos :
                 gastos[g].nombre_gasto_id = expenseNameId})

\* a variant that deletes the expense names that suggest the category, as
\* ON DELETE CASCADE would
removeFromExpenseNames_cascade(categoryId) ==
  [n \in {m \in DOMAIN nombres_gastos :
            nombres_gastos[m].categoria_sugerida_id # categoryId} |->
     nombres_gastos[n]]

\* UPDATE nombres_gastos SET categoria_sugerida_id = NULL
\* WHERE categoria_sugerida_id = $1; also the effect of ON DELETE SET NULL
removeFromExpenseNames(categoryId) ==
  [n \in DOMAIN nombres_gastos |->
     IF nombres_gastos[n].categoria_sugerida_id = categoryId
     THEN [nombres_gastos[n] EXCEPT !.categoria_sugerida_id = NullId]
     ELSE nombres_gastos[n]]

(***************************************************************************)
(* Write requests.  A server task runs one service call; each database     *)
(* query the call awaits is one step, so the steps of two calls interleave *)
(* as the event loop and the connection pool allow.  proc[p] holds         *)
(*   op, id, data: the service call and its arguments;                     *)
(*   cur: the data after the processing done so far;                       *)
(*   pc: the query the call awaits next;                                   *)
(*   todo: the queries of a Promise.all still to be answered;              *)
(* and, once the call has returned or thrown, the status of its response.  *)
(***************************************************************************)
Free(p) == proc[p].pc \in {"idle", "done"}

\* a request goes to the first free task, while requests are left
CanIssue(p) ==
  /\ Free(p)
  /\ \A q \in Procs : q < p => ~Free(q)
  /\ issued < MaxRequests

Call(op, id, data, pc, cur) ==
  [id |-> id, op |-> op, pc |-> pc, data |-> data, cur |-> cur, todo |-> {}]

\* the call returned (200, 201) or threw an ApiError with this statusCode
Done(q, status) ==
  [id |-> q.id, op |-> q.op, pc |-> "done", data |-> q.data,
   status |-> status]

Has(d, f) == f \in DOMAIN d

\* task p moves to q; the store and the clock stay
Local(p, q) ==
  /\ proc' = [proc EXCEPT ![p] = q]
  /\ UNCHANGED limiter
  /\ UNCHANGED <<tz, now, tables, out, serial, issued>>

(***************************************************************************)
(* services/ExpenseService.js and the write side of models/Expense.js      *)
(***************************************************************************)
\* Math.round(x * 100) / 100 of an amount given in tenths of a cent; the
\* result in cents
roundToCents(x) == (x + 5) \div 10

\* the whole currency units of the largest amount, 99999999.99: an amount
\* of c cents is above it exactly when c \div 100 is above 99999999
MaxMontoUnits == 99999999

\* ExpenseService.applyBusinessRules(expenseData)
ExpenseService_applyBusinessRules(data) ==
  LET processed ==
        IF Has(data, "fecha") THEN data
        ELSE data @@ [fecha |-> formatDateToString(now, tz)]
  IN  [f \in DOMAIN processed |->
         CASE f = "monto" -> roundToCents(processed[f])
           [] f = "descripcion" ->
                IF processed[f] \in {<<>>, NullText} THEN processed[f]
                ELSE IF trim(processed[f]) = <<>> THEN NullText
                ELSE trim(processed[f])
           [] OTHER -> processed[f]]

\* ExpenseService.validateBusinessRules(expenseData): the date, read as a
\* UTC midnight, is not after this time tomorrow
validateBusinessRules(d) ==
  Has(d, "fecha") =>
    DayNumber(d.fecha) * MinutesPerDay <= setDate(now, getDate(now, tz) + 1, tz)

\* the checks of Expense.validateExpenseData(data) that need no query
validMonto(d) ==
  Has(d, "monto") => (d.monto > 0 /\ d.monto \div 100 <= MaxMontoUnits)

validFecha(d) ==
  Has(d, "fecha") =>
    UTCTime(DayNumber(d.fecha) * MinutesPerDay, tz) <= EndOfToday(now, tz)

\* the object Expense.validateExpenseData(data) returns
validatedExpenseData(d) ==
  [f \in DOMAIN d |->
     CASE f = "fecha" ->
            formatDateToString(
              UTCTime(DayNumber(d[f]) * MinutesPerDay, tz), tz)
       [] f = "descripcion" ->
            IF d[f] = NullText \/ trim(d[f]) = <<>> THEN NullText
            ELSE trim(d[f])
       [] OTHER -> d[f]]

\* the query Expense.create / Expense.update awaits after the existence
\* checks of Expense.validateExpenseData
AfterExistsChecks(op) ==
  IF op = "createExpense" THEN "insert" ELSE "update.findById"

\* the code between the answers of validateRelatedEntities and the first
\* query of Expense.create / Expense.update
ExpenseAfterRelated(q) ==
  LET d == q.cur
      required ==
        q.op = "createExpense" =>
          {"monto", "categoria_id", "nombre_gasto_id"} \subseteq DOMAIN d
  IN  IF ~(validateBusinessRules(d) /\ required /\ validMonto(d)
           /\ validFecha(d))
      THEN Done(q, 400)
      ELSE [q EXCEPT
              !.cur = validatedExpenseData(d),
              !.pc  = IF Has(d, "categoria_id") THEN "categoryExists"
                      ELSE IF Has(d, "nombre_gasto_id")
                      THEN "expenseNameExists"
                      ELSE AfterExistsChecks(q.op)]

\* ExpenseService.validateRelatedEntities(expenseData): the queries it
\* starts, and what follows when none is left
ExpenseStartRelated(q) ==
  LET related == DOMAIN q.cur \cap {"categoria_id", "nombre_gasto_id"}
  IN  IF related = {} THEN ExpenseAfterRelated(q)
      ELSE [q EXCEPT !.pc = "validateRelatedEntities", !.todo = related]

Issue(p, q) ==
  /\ CanIssue(p)
  /\ issued' = issued + 1
  /\ proc' = [proc EXCEPT ![p] = q]
  /\ UNCHANGED limiter
  /\ UNCHANGED <<tz, now, tables, out, serial>>

\* ExpenseService.createExpense(expenseData), up to its first query
createExpense(p, data) ==
  Issue(p, ExpenseStartRelated(
             Call("createExpense", 0, data, "start",
                  ExpenseService_applyBusinessRules(data))))

\* ExpenseService.updateExpense(id, expenseData), up to its first query
updateExpense(p, id, data) ==
  Issue(p, Call("updateExpense", id, data, "getExpenseById", data))

\* the results of ExpenseService.bulkDeleteExpenses before its loop; errors
\* keeps the id of each { id, error } it holds
NoBulkResults == [errors |-> <<>>, deleted |-> <<>>, notFound |-> <<>>]

\* the elements of ids the loop of bulkDeleteExpenses has reported
BulkProcessed(results) ==
  Len(results.errors) + Len(results.deleted) + Len(results.notFound)

\* ExpenseController.bulkDeleteExpenses: the response for these results,
\* 200 when an expense was deleted and 400 when none was
BulkResponse(q, results) ==
  [id |-> q.id, op |-> q.op, pc |-> "done", data |-> q.data,
   status |-> IF Len(results.deleted) > 0 THEN 200 ELSE 400,
   result |-> results]

\* the loop of ExpenseService.bulkDeleteExpenses(ids) with a catch that
\* gives up: an error that is no 404 ends the loop and the results so far
\* are returned
BulkReported_giveUp(q, list) ==
  LET results == [q.cur EXCEPT ![list] = Append(@, q.id)]
      n       == BulkProcessed(results)
  IN  IF n < Len(q.data) /\ list # "errors"
      THEN [q EXCEPT !.id = q.data[n + 1], !.pc = "getExpenseById",
                     !.cur = results]
      ELSE BulkResponse(q, results)

\* the loop of ExpenseService.bulkDeleteExpenses(ids) after the element in
\* hand, q.id, is pushed to results[list]: deleteExpense of the next
\* element, or the results returned to the controller
BulkReported(q, list) ==
  LET results == [q.cur EXCEPT ![list] = Append(@, q.id)]
      n       == BulkProcessed(results)
  IN  IF n < Len(q.data)
      THEN [q EXCEPT !.id = q.data[n + 1], !.pc = "getExpenseById",
                     !.cur = results]
      ELSE BulkResponse(q, results)

\* ExpenseService.deleteExpense(id), up to its first query
deleteExpense(p, id) ==
  Issue(p, Call("deleteExpense", id, EmptyTable, "getExpenseById",
                EmptyTable))

\* DELETE /api/expenses/bulk with body { ids }: bulkValidation.delete and
\* ExpenseController.bulkDeleteExpenses refuse an empty array, then
\* ExpenseService.bulkDeleteExpenses(ids) up to the first query of its loop
bulkDeleteExpenses(p, ids) ==
  Issue(p, IF ids = <<>>
           THEN Done(Call("bulkDeleteExpenses", 0, ids, "start",
                          NoBulkResults), 400)
           ELSE Call("bulkDeleteExpenses", ids[1], ids, "getExpenseById",
                     NoBulkResults))

\* ExpenseService.getExpenseById(id): Expense.findByIdWithDetails(id)
getExpenseById(p) ==
  LET q == proc[p]
  IN  /\ q.pc = "getExpenseById"
      /\ Local(p, IF q.id \notin JoinedGastos
                  THEN IF q.op = "bulkDeleteExpenses"
                       THEN BulkReported(q, "notFound")
                       ELSE Done(q, 404)
                  ELSE IF q.op \in {"deleteExpense", "bulkDeleteExpenses"}
                  THEN [q EXCEPT !.pc = "delete"]
                  ELSE ExpenseStartRelated(
                         [q EXCEPT !.cur =
                            ExpenseService_applyBusinessRules(q.data)]))

\* one query of validateRelatedEntities: Category.findById or
\* ExpenseName.findById
validateRelatedEntities(p, f) ==
  LET q == proc[p]
      found == IF f = "categoria_id"
               THEN q.cur.categoria_id \in DOMAIN categorias
               ELSE q.cur.nombre_gasto_id \in DOMAIN nombres_gastos
  IN  /\ q.pc = "validateRelatedEntities"
      /\ f \in q.todo
      /\ Local(p, IF ~found THEN Done(q, 400)
                  ELSE IF q.todo = {f}
                  THEN ExpenseAfterRelated([q EXCEPT !.todo = {}])
                  ELSE [q EXCEPT !.todo = @ \ {f}])

\* Expense.categoryExists(categoryId) in Expense.validateExpenseData
Expense_categoryExists(p) ==
  LET q == proc[p]
  IN  /\ q.pc = "categoryExists"
      /\ q.op \in {"createExpense", "updateExpense"}
      /\ Local(p, IF q.cur.categoria_id \notin DOMAIN categorias
                  THEN Done(q, 400)
                  ELSE [q EXCEPT !.pc =
                          IF Has(q.cur, "nombre_gasto_id")
                          THEN "expenseNameExists"
                          ELSE AfterExistsChecks(q.op)])

\* Expense.expenseNameExists(expenseNameId) in Expense.validateExpenseData
Expense_expenseNameExists(p) ==
  LET q == proc[p]
  IN  /\ q.pc = "expenseNameExists"
      /\ Local(p, IF q.cur.nombre_gasto_id \notin DOMAIN nombres_gastos
                  THEN Done(q, 400)
                  ELSE [q EXCEPT !.pc = AfterExistsChecks(q.op)])

\* BaseModel.create(validatedData) on gastos: INSERT ... RETURNING *
Expense_insert(p) ==
  LET q   == proc[p]
      id  == serial.gastos
      row == [monto           |-> q.cur.monto,
              fecha           |-> q.cur.fecha,
              categoria_id    |-> q.cur.categoria_id,
              nombre_gasto_id |-> q.cur.nombre_gasto_id,
              descripcion     |-> IF Has(q.cur, "descripcion")
                                  THEN q.cur.descripcion ELSE NullText,
              created_at      |-> now,
              updated_at      |-> now]
  IN  /\ q.pc = "insert"
      /\ q.op = "createExpense"
      /\ serial' = [serial EXCEPT !.gastos = @ + 1]
      /\ IF ~GastosForeignKeysHold(row)
         THEN gastos' = gastos /\ proc' = [proc EXCEPT ![p] = Done(q, 400)]
         ELSE IF ~GastosChecksHold(row)
         THEN gastos' = gastos /\ proc' = [proc EXCEPT ![p] = Done(q, 500)]
         ELSE /\ gastos' = gastos @@ (id :> row)
              /\ proc' = [proc EXCEPT ![p] =
                            [q EXCEPT !.pc = "findByIdWithDetails",
                                      !.id = id]]
      /\ UNCHANGED limiter
      /\ UNCHANGED <<tz, now, categorias, nombres_gastos, out, issued>>

\* BaseModel.update(id, data) on gastos: the findById before the UPDATE
Expense_update_findById(p) ==
  LET q == proc[p]
  IN  /\ q.pc = "update.findById"
      /\ q.op = "updateExpense"
      /\ Local(p, IF q.id \notin DOMAIN gastos THEN Done(q, 404)
                  ELSE [q EXCEPT !.pc = "update"])

\* BaseModel.update(id, data) on gastos: UPDATE ... SET ... RETURNING *
Expense_update(p) ==
  LET q   == proc[p]
      old == gastos[q.id]
      row == [f \in DOMAIN old |->
                IF f = "updated_at" THEN now
                ELSE IF Has(q.cur, f) THEN q.cur[f]
                ELSE old[f]]
  IN  /\ q.pc = "update"
      /\ q.op = "updateExpense"
      /\ IF q.id \notin DOMAIN gastos
         THEN gastos' = gastos /\ proc' = [proc EXCEPT ![p] = Done(q, 404)]
         ELSE IF ~GastosForeignKeysHold(row)
         THEN gastos' = gastos /\ proc' = [proc EXCEPT ![p] = Done(q, 400)]
         ELSE IF ~GastosChecksHold(row)
         THEN gastos' = gastos /\ proc' = [proc EXCEPT ![p] = Done(q, 500)]
         ELSE /\ gastos' = [gastos EXCEPT ![q.id] = row]
              /\ proc' = [proc EXCEPT ![p] =
                            [q EXCEPT !.pc = "findByIdWithDetails"]]
      /\ UNCHANGED limiter
      /\ UNCHANGED <<tz, now, categorias, nombres_gastos, out, serial,
                     issued>>

\* Expense.findByIdWithDetails(expense.id) that ends create and update
Expense_findByIdWithDetails(p) ==
  LET q == proc[p]
  IN  /\ q.pc = "findByIdWithDetails"
      /\ Local(p, IF q.op = "createExpense" THEN Done(q, 201)
                  ELSE IF q.id \in JoinedGastos THEN Done(q, 200)
                  ELSE Done(q, 404))

\* BaseModel.delete(id) on gastos with the row count of the DELETE left
\* unread: deleted is true whether a row was removed or not
Expense_delete_blind(p) ==
  LET q == proc[p]
  IN  /\ q.pc = "delete"
      /\ q.op \in {"deleteExpense", "bulkDeleteExpenses"}
      /\ gastos' = Without(gastos, q.id)
      /\ proc' = [proc EXCEPT ![p] =
                    IF q.op = "bulkDeleteExpenses"
                    THEN BulkReported(q, "deleted")
                    ELSE Done(q, 200)]
      /\ UNCHANGED limiter
      /\ UNCHANGED <<tz, now, categorias, nombres_gastos, out, serial,
                     issued>>

\* BaseModel.delete(id) on gastos
Expense_delete(p) ==
  LET q == proc[p]
  IN  /\ q.pc = "delete"
      /\ q.op \in {"deleteExpense", "bulkDeleteExpenses"}
      /\ IF q.id \in DOMAIN gastos
         THEN /\ gastos' = Without(gastos, q.id)
              /\ proc' = [proc EXCEPT ![p] =
                            IF q.op = "bulkDeleteExpenses"
                            THEN BulkReported(q, "deleted")
                            ELSE Done(q, 200)]
         ELSE /\ gastos' = gastos
              /\ proc' = [proc EXCEPT ![p] =
                            IF q.op = "bulkDeleteExpenses"
                            THEN BulkReported(q, "notFound")
                            ELSE Done(q, 404)]
      /\ UNCHANGED limiter
      /\ UNCHANGED <<tz, now, categorias, nombres_gastos, out, serial,
                     issued>>

\* the catch of the loop of ExpenseService.bulkDeleteExpenses for an error
\* that is no 404: the query in hand failed in the database, the id goes
\* to errors and the loop goes on
bulkDeleteExpenses_catch(p) ==
  LET q == proc[p]
  IN  /\ q.pc \in {"getExpenseById", "delete"}
      /\ q.op = "bulkDeleteExpenses"
      /\ Local(p, BulkReported(q, "errors"))

ExpenseSteps(p) ==
  \/ getExpenseById(p)
  \/ \E f \in {"categoria_id", "nombre_gasto_id"} :
       validateRelatedEntities(p, f)
  \/ Expense_categoryExists(p)
  \/ Expense_expenseNameExists(p)
  \/ Expense_insert(p)
  \/ Expense_update_findById(p)
  \/ Expense_update(p)
  \/ Expense_findByIdWithDetails(p)
  \/ Expense_delete(p)

(***************************************************************************)
(* services/CategoryService.js and models/Category.js                      *)
(***************************************************************************)
CategoryOps == {"createCategory", "updateCategory", "deleteCategory"}

\* a mutant: validateDeletion never refuses
hasDependencies_never(count) == FALSE

\* validateDeletion(id) of both services: if (count > 0) throw badRequest
hasDependencies(count) == count > 0

\* CategoryService.applyBusinessRules(categoryData)
CategoryService_applyBusinessRules(data) ==
  [f \in DOMAIN data |->
     IF f = "nombre" /\ data[f] # <<>> THEN titleCase(trim(data[f]))
     ELSE data[f]]

\* the code between the uniqueness check and the first query of
\* Category.create / Category.update: applyBusinessRules,
\* validateRequiredFields and validateCategoryData
CategoryAfterUnique(q) ==
  LET d == CategoryService_applyBusinessRules(q.data)
      required == q.op = "createCategory" => Has(d, "nombre")
      valid == Has(d, "nombre") => trim(d.nombre) # <<>>
  IN  IF ~(required /\ valid) THEN Done(q, 400)
      ELSE [q EXCEPT
              !.cur = [f \in DOMAIN d |->
                         IF f = "nombre" THEN trim(d[f]) ELSE d[f]],
              !.pc  = IF q.op = "createCategory" THEN "insert"
                      ELSE "update.findById"]

\* CategoryService.createCategory(categoryData), up to its first query
createCategory(p, data) ==
  Issue(p, Call("createCategory", 0, data, "findByName", data))

\* CategoryService.updateCategory(id, categoryData), up to its first query
updateCategory(p, id, data) ==
  Issue(p, Call("updateCategory", id, data, "getCategoryById", data))

\* CategoryService.deleteCategory(id), up to its first query
deleteCategory(p, id) ==
  Issue(p, Call("deleteCategory", id, EmptyTable, "getCategoryById",
                EmptyTable))

\* validateUniqueNameForCreate(nombre): Category.findByName(nombre)
Category_findByName(p) ==
  LET q == proc[p]
  IN  /\ q.pc = "findByName"
      /\ q.op = "createCategory"
      /\ Local(p, IF WhereLowerNombre(categorias, q.data.nombre, NullId) # {}
                  THEN Done(q, 409)
                  ELSE CategoryAfterUnique(q))

\* CategoryService.getCategoryById(id): Category.findById(id)
getCategoryById(p) ==
  LET q == proc[p]
  IN  /\ q.pc = "getCategoryById"
      /\ Local(p, IF q.id \notin DOMAIN categorias THEN Done(q, 404)
                  ELSE IF q.op = "deleteCategory"
                  THEN [q EXCEPT !.pc = "validateDeletion"]
                  ELSE IF Has(q.data, "nombre") /\ q.data.nombre # <<>>
                  THEN [q EXCEPT !.pc = "nameExists"]
                  ELSE CategoryAfterUnique(q))

\* validateUniqueNameForUpdate(nombre, id): Category.nameExists(nombre, id)
Category_nameExists(p) ==
  LET q == proc[p]
  IN  /\ q.pc = "nameExists"
      /\ q.op = "updateCategory"
      /\ Local(p, IF WhereLowerNombre(categorias, q.data.nombre, q.id) # {}
                  THEN Done(q, 409)
                  ELSE CategoryAfterUnique(q))

\* BaseModel.create(validatedData) on categorias: INSERT ... RETURNING *
Category_insert(p) ==
  LET q  == proc[p]
      id == serial.categorias
  IN  /\ q.pc = "insert"
      /\ q.op = "createCategory"
      /\ serial' = [serial EXCEPT !.categorias = @ + 1]
      /\ IF UniqueNombreViolated(categorias, q.cur.nombre, NullId)
         THEN /\ categorias' = categorias
              /\ proc' = [proc EXCEPT ![p] = Done(q, 409)]
         ELSE /\ categorias' = categorias @@ (id :> [nombre |-> q.cur.nombre])
              /\ proc' = [proc EXCEPT ![p] = Done([q EXCEPT !.id = id], 201)]
      /\ UNCHANGED limiter
      /\ UNCHANGED <<tz, now, nombres_gastos, gastos, out, issued>>

\* BaseModel.update(id, data) on categorias: the findById before the UPDATE
Category_update_findById(p) ==
  LET q == proc[p]
  IN  /\ q.pc = "update.findById"
      /\ q.op = "updateCategory"
      /\ Local(p, IF q.id \notin DOMAIN categorias THEN Done(q, 404)
                  ELSE [q EXCEPT !.pc = "update"])

\* BaseModel.update(id, data) on categorias: UPDATE ... SET ... RETURNING *
Category_update(p) ==
  LET q   == proc[p]
      old == categorias[q.id]
      row == [f \in DOMAIN old |-> IF Has(q.cur, f) THEN q.cur[f] ELSE old[f]]
  IN  /\ q.pc = "update"
      /\ q.op = "updateCategory"
      /\ IF q.id \notin DOMAIN categorias
         THEN /\ categorias' = categorias
              /\ proc' = [proc EXCEPT ![p] = Done(q, 404)]
         ELSE IF UniqueNombreViolated(categorias, row.nombre, q.id)
         THEN /\ categorias' = categorias
              /\ proc' = [proc EXCEPT ![p] = Done(q, 409)]
         ELSE /\ categorias' = [categorias EXCEPT ![q.id] = row]
              /\ proc' = [proc EXCEPT ![p] = Done(q, 200)]
      /\ UNCHANGED limiter
      /\ UNCHANGED <<tz, now, nombres_gastos, gastos, out, serial, issued>>

\* CategoryService.validateDeletion(id): Category.getExpenseCount(id)
CategoryService_validateDeletion(p) ==
  LET q == proc[p]
  IN  /\ q.pc = "validateDeletion"
      /\ q.op = "deleteCategory"
      /\ Local(p, IF hasDependencies(getExpenseCount(q.id)) THEN Done(q, 400)
                  ELSE [q EXCEPT !.pc = "delete.getExpenseCount"])

\* Category.delete(id): its own getExpenseCount(id)
Category_delete_getExpenseCount(p) ==
  LET q == proc[p]
  IN  /\ q.pc = "delete.getExpenseCount"
      /\ Local(p, IF getExpenseCount(q.id) > 0 THEN Done(q, 400)
                  ELSE [q EXCEPT !.pc = "delete.getExpenseNameCount"])

\* Category.delete(id): getExpenseNameCount(id)
Category_delete_getExpenseNameCount(p) ==
  LET q == proc[p]
  IN  /\ q.pc = "delete.getExpenseNameCount"
      /\ Local(p, IF getExpenseNameCount(q.id) > 0
                  THEN [q EXCEPT !.pc = "delete.removeFromExpenseNames"]
                  ELSE [q EXCEPT !.pc = "delete"])

\* Category.delete(id): removeFromExpenseNames(id); cur keeps the rows the
\* UPDATE changed
Category_removeFromExpenseNames(p) ==
  LET q == proc[p]
  IN  /\ q.pc = "delete.removeFromExpenseNames"
      /\ nombres_gastos' = removeFromExpenseNames(q.id)
      /\ proc' = [proc EXCEPT ![p] =
                    [q EXCEPT
                       !.pc = "delete",
                       !.cur = [updated |->
                                  {n \in DOMAIN nombres_gastos :
                                     nombres_gastos[n].categoria_sugerida_id
                                       = q.id}]]]
      /\ UNCHANGED limiter
      /\ UNCHANGED <<tz, now, categorias, gastos, out, serial, issued>>

\* BaseModel.delete(id) on categorias: gastos.categoria_id is ON DELETE
\* RESTRICT, nombres_gastos.categoria_sugerida_id is ON DELETE SET NULL
Category_delete(p) ==
  LET q == proc[p]
  IN  /\ q.pc = "delete"
      /\ q.op = "deleteCategory"
      /\ IF q.id \notin DOMAIN categorias
         THEN /\ UNCHANGED <<categorias, nombres_gastos>>
              /\ proc' = [proc EXCEPT ![p] = Done(q, 404)]
         ELSE IF getExpenseCount(q.id) > 0
         THEN /\ UNCHANGED <<categorias, nombres_gastos>>
              /\ proc' = [proc EXCEPT ![p] = Done(q, 400)]
         ELSE /\ categorias' = Without(categorias, q.id)
              /\ nombres_gastos' = removeFromExpenseNames(q.id)
              /\ proc' = [proc EXCEPT ![p] = Done(q, 200)]
      /\ UNCHANGED limiter
      /\ UNCHANGED <<tz, now, gastos, out, serial, issued>>

CategorySteps(p) ==
  \/ Category_findByName(p)
  \/ getCategoryById(p)
  \/ Category_nameExists(p)
  \/ Category_insert(p)
  \/ Category_update_findById(p)
  \/ Category_update(p)
  \/ CategoryService_validateDeletion(p)
  \/ Category_delete_getExpenseCount(p)
  \/ Category_delete_getExpenseNameCount(p)
  \/ Category_removeFromExpenseNames(p)
  \/ Category_delete(p)

(***************************************************************************)
(* services/ExpenseNameService.js and models/ExpenseName.js                *)
(***************************************************************************)
ExpenseNameOps ==
  {"createExpenseName", "updateExpenseName", "deleteExpenseName"}

\* ExpenseNameService.applyBusinessRules(expenseNameData)
ExpenseNameService_applyBusinessRules(data) ==
  [f \in DOMAIN data |->
     IF f = "nombre" /\ data[f] # <<>> THEN titleCase(trim(data[f]))
     ELSE data[f]]

\* the query ExpenseName.create / ExpenseName.update awaits after
\* validateExpenseNameData
AfterNameChecks(op) ==
  IF op = "createExpenseName" THEN "insert" ELSE "update.findById"

\* the code between validateSuggestedCategory and the first query of
\* ExpenseName.create / ExpenseName.update
NameAfterSuggested(q) ==
  LET d == ExpenseNameService_applyBusinessRules(q.data)
      required == q.op = "createExpenseName" => Has(d, "nombre")
      valid == Has(d, "nombre") => trim(d.nombre) # <<>>
  IN  IF ~(required /\ valid) THEN Done(q, 400)
      ELSE [q EXCEPT
              !.cur = [f \in DOMAIN d |->
                         IF f = "nombre" THEN trim(d[f]) ELSE d[f]],
              !.pc  = IF Has(d, "categoria_sugerida_id")
                         /\ d.categoria_sugerida_id # NullId
                      THEN "categoryExists"
                      ELSE AfterNameChecks(q.op)]

\* the code after the uniqueness check of createExpenseName /
\* updateExpenseName
NameAfterUnique(q) ==
  IF Has(q.data, "categoria_sugerida_id")
     /\ q.data.categoria_sugerida_id # NullId
  THEN [q EXCEPT !.pc = "validateSuggestedCategory"]
  ELSE NameAfterSuggested(q)

\* ExpenseNameService.createExpenseName(expenseNameData), to its first query
createExpenseName(p, data) ==
  Issue(p, Call("createExpenseName", 0, data, "findByName", data))

\* ExpenseNameService.updateExpenseName(id, data), to its first query
updateExpenseName(p, id, data) ==
  Issue(p, Call("updateExpenseName", id, data, "getExpenseNameById", data))

\* ExpenseNameService.deleteExpenseName(id), to its first query
deleteExpenseName(p, id) ==
  Issue(p, Call("deleteExpenseName", id, EmptyTable, "getExpenseNameById",
                EmptyTable))

\* validateUniqueNameForCreate(nombre): ExpenseName.findByName(nombre)
ExpenseName_findByName(p) ==
  LET q == proc[p]
  IN  /\ q.pc = "findByName"
      /\ q.op = "createExpenseName"
      /\ Local(p, IF WhereLowerNombre(nombres_gastos, q.data.nombre, NullId)
                     # {}
                  THEN Done(q, 409)
                  ELSE NameAfterUnique(q))

\* ExpenseNameService.getExpenseNameById(id): ExpenseName.findById(id)
getExpenseNameById(p) ==
  LET q == proc[p]
  IN  /\ q.pc = "getExpenseNameById"
      /\ Local(p, IF q.id \notin DOMAIN nombres_gastos THEN Done(q, 404)
                  ELSE IF q.op = "deleteExpenseName"
                  THEN [q EXCEPT !.pc = "validateDeletion"]
                  ELSE IF Has(q.data, "nombre") /\ q.data.nombre # <<>>
                  THEN [q EXCEPT !.pc = "nameExists"]
                  ELSE NameAfterUnique(q))

\* validateUniqueNameForUpdate(nombre, id): ExpenseName.nameExists
ExpenseName_nameExists(p) ==
  LET q == proc[p]
  IN  /\ q.pc = "nameExists"
      /\ q.op = "updateExpenseName"
      /\ Local(p, IF WhereLowerNombre(nombres_gastos, q.data.nombre, q.id)
                     # {}
                  THEN Done(q, 409)
                  ELSE NameAfterUnique(q))

\* ExpenseNameService.validateSuggestedCategory(id): Category.findById(id)
validateSuggestedCategory(p) ==
  LET q == proc[p]
  IN  /\ q.pc = "validateSuggestedCategory"
      /\ Local(p, IF q.data.categoria_sugerida_id \notin DOMAIN categorias
                  THEN Done(q, 400)
                  ELSE NameAfterSuggested(q))

\* ExpenseName.categoryExists(categoryId) in validateExpenseNameData
ExpenseName_categoryExists(p) ==
  LET q == proc[p]
  IN  /\ q.pc = "categoryExists"
      /\ q.op \in ExpenseNameOps
      /\ Local(p, IF q.cur.categoria_sugerida_id \notin DOMAIN categorias
                  THEN Done(q, 400)
                  ELSE [q EXCEPT !.pc = AfterNameChecks(q.op)])

\* BaseModel.create(validatedData) on nombres_gastos
ExpenseName_insert(p) ==
  LET q   == proc[p]
      id  == serial.nombres_gastos
      row == [nombre |-> q.cur.nombre,
              categoria_sugerida_id |->
                IF Has(q.cur, "categoria_sugerida_id")
                THEN q.cur.categoria_sugerida_id ELSE NullId]
  IN  /\ q.pc = "insert"
      /\ q.op = "createExpenseName"
      /\ serial' = [serial EXCEPT !.nombres_gastos = @ + 1]
      /\ IF UniqueNombreViolated(nombres_gastos, row.nombre, NullId)
         THEN /\ nombres_gastos' = nombres_gastos
              /\ proc' = [proc EXCEPT ![p] = Done(q, 409)]
         ELSE IF ~NombresGastosForeignKeyHolds(row)
         THEN /\ nombres_gastos' = nombres_gastos
              /\ proc' = [proc EXCEPT ![p] = Done(q, 400)]
         ELSE /\ nombres_gastos' = nombres_gastos @@ (id :> row)
              /\ proc' = [proc EXCEPT ![p] = Done([q EXCEPT !.id = id], 201)]
      /\ UNCHANGED limiter
      /\ UNCHANGED <<tz, now, categorias, gastos, out, issued>>

\* BaseModel.update(id, data) on nombres_gastos: the findById
ExpenseName_update_findById(p) ==
  LET q == proc[p]
  IN  /\ q.pc = "update.findById"
      /\ q.op = "updateExpenseName"
      /\ Local(p, IF q.id \notin DOMAIN nombres_gastos THEN Done(q, 404)
                  ELSE [q EXCEPT !.pc = "update"])

\* BaseModel.update(id, data) on nombres_gastos: UPDATE ... RETURNING *
ExpenseName_update(p) ==
  LET q   == proc[p]
      old == nombres_gastos[q.id]
      row == [f \in DOMAIN old |-> IF Has(q.cur, f) THEN q.cur[f] ELSE old[f]]
  IN  /\ q.pc = "update"
      /\ q.op = "updateExpenseName"
      /\ IF q.id \notin DOMAIN nombres_gastos
         THEN /\ nombres_gastos' = nombres_gastos
              /\ proc' = [proc EXCEPT ![p] = Done(q, 404)]
         ELSE IF UniqueNombreViolated(nombres_gastos, row.nombre, q.id)
         THEN /\ nombres_gastos' = nombres_gastos
              /\ proc' = [proc EXCEPT ![p] = Done(q, 409)]
         ELSE IF ~NombresGastosForeignKeyHolds(row)
         THEN /\ nombres_gastos' = nombres_gastos
              /\ proc' = [proc EXCEPT ![p] = Done(q, 400)]
         ELSE /\ nombres_gastos' = [nombres_gastos EXCEPT ![q.id] = row]
              /\ proc' = [proc EXCEPT ![p] = Done(q, 200)]
      /\ UNCHANGED limiter
      /\ UNCHANGED <<tz, now, categorias, gastos, out, serial, issued>>

\* ExpenseNameService.validateDeletion(id): ExpenseName.getUsageCount(id)
ExpenseNameService_validateDeletion(p) ==
  LET q == proc[p]
  IN  /\ q.pc = "validateDeletion"
      /\ q.op = "deleteExpenseName"
      /\ Local(p, IF hasDependencies(getUsageCount(q.id)) THEN Done(q, 400)
                  ELSE [q EXCEPT !.pc = "delete.getUsageCount"])

\* ExpenseName.delete(id): its own getUsageCount(id)
ExpenseName_delete_getUsageCount(p) ==
  LET q == proc[p]
  IN  /\ q.pc = "delete.getUsageCount"
      /\ Local(p, IF getUsageCount(q.id) > 0 THEN Done(q, 400)
                  ELSE [q EXCEPT !.pc = "delete"])

\* BaseModel.delete(id) on nombres_gastos: gastos.nombre_gasto_id is ON
\* DELETE RESTRICT
ExpenseName_delete(p) ==
  LET q == proc[p]
  IN  /\ q.pc = "delete"
      /\ q.op = "deleteExpenseName"
      /\ IF q.id \notin DOMAIN nombres_gastos
         THEN /\ nombres_gastos' = nombres_gastos
              /\ proc' = [proc EXCEPT ![p] = Done(q, 404)]
         ELSE IF getUsageCount(q.id) > 0
         THEN /\ nombres_gastos' = nombres_gastos
              /\ proc' = [proc EXCEPT ![p] = Done(q, 400)]
         ELSE /\ nombres_gastos' = Without(nombres_gastos, q.id)
              /\ proc' = [proc EXCEPT ![p] = Done(q, 200)]
      /\ UNCHANGED limiter
      /\ UNCHANGED <<tz, now, categorias, gastos, out, serial, issued>>

ExpenseNameSteps(p) ==
  \/ ExpenseName_findByName(p)
  \/ getExpenseNameById(p)
  \/ ExpenseName_nameExists(p)
  \/ validateSuggestedCategory(p)
  \/ ExpenseName_categoryExists(p)
  \/ ExpenseName_insert(p)
  \/ ExpenseName_update_findById(p)
  \/ ExpenseName_update(p)
  \/ ExpenseNameService_validateDeletion(p)
  \/ ExpenseName_delete_getUsageCount(p)
  \/ ExpenseName_delete(p)

(***************************************************************************)
(* Service specification: write requests on expenses, categories and       *)
(* expense names, interleaved                                              *)
(***************************************************************************)
\* server zones of the service specifications: UTC-3 and UTC+1
ServiceZones == {-180, 60}

\* bodies of createExpense: amounts in tenths of a cent
CreateExpenseInputs ==
  {[categoria_id |-> 1, nombre_gasto_id |-> 1, monto |-> 1500],
   [fecha |-> <<2025, 1, 5>>, categoria_id |-> 2, nombre_gasto_id |-> 2,
    monto |-> 25994, descripcion |-> <<" ", "a">>]}

\* bodies of updateExpense: each a partial update
UpdateExpenseInputs ==
  {[monto |-> 25994],
   [categoria_id |-> 2],
   [nombre_gasto_id |-> 2],
   [fecha |-> <<2025, 1, 4>>, descripcion |-> <<"b">>]}

Init ==
  /\ tz \in ServiceZones
  /\ now = MakeDay(2025, 1, 6) * MinutesPerDay + 720
  /\ categorias = SeedCategorias
  /\ nombres_gastos = SeedNombresGastos
  /\ gastos = EmptyTable
  /\ out = NoCall
  /\ proc = [p \in Procs |-> Idle]
  /\ serial = SeedSerial
  /\ issued = 0
  /\ requests = NoRequests
  /\ passed = NoRequests

Requests(p) ==
  \/ \E data \in CreateExpenseInputs : createExpense(p, data)
  \/ \E data \in UpdateExpenseInputs : updateExpense(p, 1, data)
  \/ deleteExpense(p, 1)
  \/ createCategory(p, [nombre |-> <<"b", "b">>])
  \/ updateCategory(p, 2, [nombre |-> <<"a", "a">>])
  \/ \E id \in DOMAIN SeedCategorias : deleteCategory(p, id)
  \/ createExpenseName(p, [nombre |-> <<"b", "b">>,
                           categoria_sugerida_id |-> 1])
  \/ updateExpenseName(p, 2, [nombre |-> <<"a", "a">>,
                              categoria_sugerida_id |-> 1])
  \/ \E id \in DOMAIN SeedNombresGastos : deleteExpenseName(p, id)

Next ==
  \E p \in Procs :
    \/ Requests(p)
    \/ ExpenseSteps(p)
    \/ CategorySteps(p)
    \/ ExpenseNameSteps(p)

Spec == Init /\ [][Next]_vars

(***************************************************************************)
(* Name specification: the requests that write names, interleaved          *)
(***************************************************************************)
\* names asked for: two that differ in the case of a non-ASCII first
\* letter, two that differ in the case of ASCII letters, and the name of a
\* seed row in lower case after a space
NameInputs ==
  {<<"n~", "a">>, <<"N~", "a">>, <<"b", "b">>, <<"B", "B">>,
   <<" ", "a", "b">>}

NameRequests(p) ==
  \/ \E n \in NameInputs : createCategory(p, [nombre |-> n])
  \/ \E n \in NameInputs : updateCategory(p, 2, [nombre |-> n])
  \/ deleteCategory(p, 1)
  \/ \E n \in NameInputs : createExpenseName(p, [nombre |-> n])
  \/ createExpenseName(p, [nombre |-> <<"b">>, categoria_sugerida_id |-> 1])
  \/ \E n \in NameInputs : updateExpenseName(p, 2, [nombre |-> n])
  \/ deleteExpenseName(p, 1)

NextNames ==
  \E p \in Procs :
    \/ NameRequests(p)
    \/ CategorySteps(p)
    \/ ExpenseNameSteps(p)

SpecNames == Init /\ [][NextNames]_vars

(***************************************************************************)
(* services/ExpenseService.js: the read operations.  A read sends its      *)
(* queries through Expense's report functions; each query is answered in   *)
(* one step, in any order the pool allows, and may fail, which the report  *)
(* function turns into ApiError.database (500).  proc[p].cur holds         *)
(*   res: the results of the queries answered so far, by report and part;  *)
(*   sent: the number of queries the request has sent;                     *)
(*   failed: the reports of the request that threw, with their status;     *)
(*   seen, quiet: the tables at the request's first answered query, and    *)
(*     whether every later query of the request saw the same tables.       *)
(***************************************************************************)
NoOptions == [categoryId |-> 0, limit |-> 0, offset |-> 0]

\* a query sent and not yet answered: the report function that sent it, the
\* report and the part of the response it is for, its arguments, and the
\* part of the query the caller sends once this one is answered ("" for
\* none)
Query(fn, report, part, startDate, endDate, options, then) ==
  [startDate |-> startDate, endDate |-> endDate, options |-> options,
   fn |-> fn, report |-> report, part |-> part, then |-> then]

\* what a report did before its first await: the status of the error it
\* threw (0 for none) and the queries it sent
Threw(report, status) ==
  [status |-> status, queries |-> {}, failed |-> {<<report, status>>}]
Sent(queries) == [status |-> 0, queries |-> queries, failed |-> {}]

\* Promise.all over reports already called, in the order of the array: it
\* rejects with the error of the first that threw
PromiseAll(starts) ==
  LET thrown == {i \in 1..Len(starts) : starts[i].status # 0}
  IN  [status  |-> IF thrown = {} THEN 0 ELSE starts[MinOf(thrown)].status,
       queries |-> UNION {starts[i].queries : i \in 1..Len(starts)},
       failed  |-> UNION {starts[i].failed : i \in 1..Len(starts)}]

\* Expense.findWeeklyExpenses(dateInWeek) up to its query
StartWeeklyExpenses(report, dateInWeek) ==
  Sent({Query("findWeeklyExpenses", report, "week", dateInWeek, dateInWeek,
              NoOptions, "")})

\* ExpenseService.getWeeklyExpenses(dateInWeek) up to its await
StartGetWeeklyExpenses(report, dateInWeek, zone) ==
  IF ~isValidDateString(dateInWeek, zone) THEN Threw(report, 400)
  ELSE StartWeeklyExpenses(report, dateInWeek)

\* ExpenseService.getExpenseStatistics(startDate, endDate) up to its await:
\* the two reports of its Promise.all validate the range before they query
StartExpenseStatistics(report, startDate, endDate, t, zone) ==
  IF ~isValidDateString(startDate, zone) \/ ~isValidDateString(endDate, zone)
    THEN Threw(report, 400)
  ELSE IF ~validateDateRange(startDate, endDate, DefaultMaxDays, t, zone).isValid
    THEN Threw(report, 400)
  ELSE Sent({Query("getStatistics", report, "stats", startDate, endDate,
                   NoOptions, ""),
             Query("getByCategory", report, "categoryBreakdown", startDate,
                   endDate, NoOptions, "")})

\* the response of getExpenseStatistics: { ...stats, categoryBreakdown }
ExpenseStatistics(res, report) ==
  res[<<report, "stats">>]
    @@ [categoryBreakdown |-> res[<<report, "categoryBreakdown">>].rows]

\* page, limit and offset of getExpensesByDateRange; an option left out is 0
Pagination(options) ==
  LET page  == IF options.page >= 1 THEN options.page ELSE 1
      limit == IF options.limit = 0 THEN 50
               ELSE IF options.limit < 1 THEN 1
               ELSE IF options.limit > 100 THEN 100 ELSE options.limit
  IN  [page |-> page, limit |-> limit, offset |-> (page - 1) * limit]

\* ExpenseService.getExpensesByDateRange(startDate, endDate, options) up to
\* its first await
StartExpensesByDateRange(report, startDate, endDate, options, t, zone) ==
  IF ~isValidDateString(startDate, zone) \/ ~isValidDateString(endDate, zone)
    THEN Threw(report, 400)
  ELSE IF ~validateDateRange(startDate, endDate, DefaultMaxDays, t, zone).isValid
    THEN Threw(report, 400)
  ELSE Sent({Query("findByDateRange", report, "expenses", startDate, endDate,
                   [categoryId |-> options.categoryId,
                    limit      |-> Pagination(options).limit,
                    offset     |-> Pagination(options).offset],
                   "stats")})

\* the response of getExpensesByDateRange
ExpensesByDateRange(res, report, startDate, endDate, options) ==
  LET expenses == res[<<report, "expenses">>].rows
      stats    == res[<<report, "stats">>]
      total    == stats.totalExpenses
      pg       == Pagination(options)
  IN  [expenses   |-> expenses,
       pagination |-> [page       |-> pg.page,
                       limit      |-> pg.limit,
                       total      |-> total,
                       totalPages |-> CeilDiv(total, pg.limit),
                       hasMore    |-> pg.offset + Len(expenses) < total],
       summary    |-> [totalAmount   |-> stats.totalAmount,
                       averageAmount |-> stats.averageAmount,
                       dateRange     |-> [startDate |-> startDate,
                                          endDate   |-> endDate]]]

\* ExpenseService.getMonthlyExpenses(month) up to its await
StartMonthlyExpenses(report, month, t, zone) ==
  IF month # <<>> /\ Len(month) # 2 THEN Threw(report, 400)
  ELSE StartExpenseStatistics(report, MonthRange(month, t, zone).startDate,
                              MonthRange(month, t, zone).endDate, t, zone)

\* the range and the options of getRecentExpenses(limit)
RecentRange(t, zone) ==
  [startDate |-> formatDateToString(t - 30 * MinutesPerDay, zone),
   endDate   |-> formatDateToString(t, zone)]

RecentOptions(limit) == [page |-> 0, limit |-> limit, categoryId |-> 0]

\* ExpenseService.getRecentExpenses(limit) up to its await
StartRecentExpenses(report, limit, t, zone) ==
  StartExpensesByDateRange(report, RecentRange(t, zone).startDate,
                           RecentRange(t, zone).endDate,
                           RecentOptions(limit), t, zone)

\* ExpenseService.getDashboardSummary() up to its await
StartDashboardSummary(t, zone) ==
  LET today        == formatDateToString(t, zone)
      currentMonth == <<today[1], today[2]>>
  IN  PromiseAll(<<StartWeeklyExpenses("thisWeek", today),
                   StartMonthlyExpenses("thisMonth", currentMonth, t, zone),
                   StartRecentExpenses("recentExpenses", 5, t, zone)>>)

\* the response of getDashboardSummary
DashboardSummary(res, t, zone) ==
  LET weeklyData  == res[<<"thisWeek", "week">>]
      monthlyData == ExpenseStatistics(res, "thisMonth")
      recent      == RecentRange(t, zone)
      recentExpenses ==
        ExpensesByDateRange(res, "recentExpenses", recent.startDate,
                            recent.endDate, RecentOptions(5)).expenses
  IN  [thisWeek  |-> [total        |-> weeklyData.weekTotal,
                      expenseCount |-> weeklyData.totalExpenses,
                      dates        |-> [start |-> weeklyData.weekStart,
                                        end   |-> weeklyData.weekEnd]],
       thisMonth |-> [total        |-> monthlyData.totalAmount,
                      expenseCount |-> monthlyData.totalExpenses,
                      average      |-> monthlyData.averageAmount,
                      categoryBreakdown |-> monthlyData.categoryBreakdown],
       recentExpenses |-> recentExpenses]

\* the call threw an ApiError with this statusCode
Thrown(q, status) ==
  [id |-> q.id, op |-> q.op, pc |-> "done", data |-> q.data,
   status |-> status, failed |-> q.cur.failed, sent |-> q.cur.sent,
   answered |-> DOMAIN q.cur.res]

\* the call returned result
Returned(q, result) ==
  [id |-> q.id, op |-> q.op, pc |-> "done", data |-> q.data,
   status |-> 200, failed |-> q.cur.failed, sent |-> q.cur.sent,
   result |-> result, quiet |-> q.cur.quiet]

\* the value a read operation returns once all its queries are answered
Response(q) ==
  LET res == q.cur.res
      d   == q.data
  IN  CASE q.op = "getWeeklyExpenses" -> res[<<"", "week">>]
        [] q.op = "getExpensesByDateRange" ->
             ExpensesByDateRange(res, "", d.startDate, d.endDate, d.options)
        [] q.op \in {"getExpenseStatistics", "getMonthlyExpenses"} ->
             ExpenseStatistics(res, "")
        [] q.op = "getDashboardSummary" -> DashboardSummary(res, now, tz)

\* a read request from its call to its first await
Read(op, data, start) ==
  LET q == [Call(op, 0, data, "reads",
                 [res |-> <<>>, failed |-> start.failed,
                  sent |-> Cardinality(start.queries), quiet |-> TRUE,
                  seen |-> <<>>])
              EXCEPT !.todo = start.queries]
  IN  IF start.status # 0 THEN Thrown(q, start.status)
      ELSE IF start.queries = {} THEN Returned(q, Response(q))
      ELSE q

\* query x of request q is answered with result r
Answered(q, x, r) ==
  LET follow == IF x.then = "" THEN {}
                ELSE {Query("getStatistics", x.report, x.then, x.startDate,
                            x.endDate, NoOptions, "")}
      q2 == [q EXCEPT
               !.todo = (q.todo \ {x}) \cup follow,
               !.cur = [res    |-> q.cur.res @@ (<<x.report, x.part>> :> r),
                        sent   |-> q.cur.sent + Cardinality(follow),
                        failed |-> q.cur.failed,
                        seen   |-> IF q.cur.seen = <<>> THEN <<tables>>
                                   ELSE q.cur.seen,
                        quiet  |-> /\ q.cur.quiet
                                   /\ \/ q.cur.seen = <<>>
                                      \/ q.cur.seen = <<tables>>]]
  IN  IF q2.todo = {} THEN Returned(q2, Response(q2)) ELSE q2

\* a mutant: the error is swallowed and the query awaited again
Rejected_swallowed(q, x) ==
  [q EXCEPT !.cur.failed = @ \cup {<<x.report, 500>>}]

\* query x of request q failed: its report throws ApiError.database, and so
\* does every caller that awaits it
Rejected(q, x) ==
  Thrown([q EXCEPT !.cur.failed = @ \cup {<<x.report, 500>>}], 500)

\* ExpenseService.getWeeklyExpenses(dateInWeek)
getWeeklyExpenses(p, dateInWeek) ==
  Issue(p, Read("getWeeklyExpenses", [dateInWeek |-> dateInWeek],
                StartGetWeeklyExpenses("", dateInWeek, tz)))

\* ExpenseService.getExpensesByDateRange(startDate, endDate, options)
getExpensesByDateRange(p, startDate, endDate, options) ==
  Issue(p, Read("getExpensesByDateRange",
                [startDate |-> startDate, endDate |-> endDate,
                 options |-> options],
                StartExpensesByDateRange("", startDate, endDate, options,
                                         now, tz)))

\* ExpenseService.getExpenseStatistics(startDate, endDate)
getExpenseStatistics(p, startDate, endDate) ==
  Issue(p, Read("getExpenseStatistics",
                [startDate |-> startDate, endDate |-> endDate],
                StartExpenseStatistics("", startDate, endDate, now, tz)))

\* ExpenseService.getMonthlyExpenses(month)
getMonthlyExpenses(p, month) ==
  Issue(p, Read("getMonthlyExpenses", [month |-> month],
                StartMonthlyExpenses("", month, now, tz)))

\* ExpenseService.getDashboardSummary()
getDashboardSummary(p) ==
  Issue(p, Read("getDashboardSummary", EmptyTable,
                StartDashboardSummary(now, tz)))

\* the query of Expense.findWeeklyExpenses is answered, or fails
Expense_findWeeklyExpenses(p) ==
  LET q == proc[p]
  IN  /\ q.pc = "reads"
      /\ \E x \in q.todo, fails \in BOOLEAN :
           /\ x.fn = "findWeeklyExpenses"
           /\ \E rows \in OrderByFechaCreated(WeeklyRows(x.startDate, tz),
                                              FALSE) :
                Local(p, IF fails THEN Rejected(q, x)
                         ELSE Answered(q, x, findWeeklyExpenses(x.startDate,
                                                               rows, tz)))

\* the query of Expense.findByDateRange is answered, or fails
Expense_findByDateRange(p) ==
  LET q == proc[p]
  IN  /\ q.pc = "reads"
      /\ \E x \in q.todo, fails \in BOOLEAN :
           /\ x.fn = "findByDateRange"
           /\ \E rows \in OrderByFechaCreated(
                            DateRangeRows(x.startDate, x.endDate, x.options),
                            TRUE) :
                Local(p, IF fails THEN Rejected(q, x)
                         ELSE Answered(q, x, findByDateRange(x.startDate,
                                         x.endDate, x.options, rows, now, tz)))

\* the query of Expense.getStatistics is answered, or fails
Expense_getStatistics(p) ==
  LET q == proc[p]
  IN  /\ q.pc = "reads"
      /\ \E x \in q.todo, fails \in BOOLEAN :
           /\ x.fn = "getStatistics"
           /\ Local(p, IF fails THEN Rejected(q, x)
                       ELSE Answered(q, x, getStatistics(x.startDate,
                                                         x.endDate, now, tz)))

\* the query of Expense.getByCategory is answered, or fails
Expense_getByCategory(p) ==
  LET q == proc[p]
  IN  /\ q.pc = "reads"
      /\ \E x \in q.todo, fails \in BOOLEAN :
           /\ x.fn = "getByCategory"
           /\ \E order \in OrderByTotalAmount(x.startDate, x.endDate) :
                Local(p, IF fails THEN Rejected(q, x)
                         ELSE Answered(q, x, getByCategory(x.startDate,
                                         x.endDate, order, now, tz)))

ReadSteps(p) ==
  \/ Expense_findWeeklyExpenses(p)
  \/ Expense_findByDateRange(p)
  \/ Expense_getStatistics(p)
  \/ Expense_getByCategory(p)

(***************************************************************************)
(* Read specification: the read operations interleaved with the requests   *)
(* that write expenses                                                     *)
(***************************************************************************)
\* ranges asked for: the current month so far, a reversed range, a range
\* that starts tomorrow, a range of 366 days, a day that does not exist,
\* a text of another form
RangeInputs ==
  {<<<<2025, 1, 1>>, <<2025, 1, 6>>>>,
   <<<<2025, 1, 6>>, <<2025, 1, 1>>>>,
   <<<<2025, 1, 7>>, <<2025, 1, 8>>>>,
   <<<<2024, 1, 5>>, <<2025, 1, 5>>>>,
   <<<<2024, 12, 1>>, <<2024, 11, 31>>>>,
   <<<<2025, 1>>, <<2025, 1, 6>>>>}

\* months asked for: the current one, February of a leap year, month 13,
\* none, a text of another form
MonthInputs == {<<2025, 1>>, <<2024, 2>>, <<2024, 13>>, <<>>, <<2025>>}

\* options of getExpensesByDateRange: none, the second page of one row
PageOptions ==
  {[page |-> 0, limit |-> 0, categoryId |-> 0],
   [page |-> 2, limit |-> 1, categoryId |-> 0]}

\* the expenses stored when the read specifications start
SeedGastos ==
     (1 :> [monto |-> 1050, fecha |-> <<2025, 1, 3>>, categoria_id |-> 1,
            nombre_gasto_id |-> 1, descripcion |-> NullText,
            created_at |-> CreatedAt(1), updated_at |-> CreatedAt(1)])
  @@ (2 :> [monto |-> 299, fecha |-> <<2025, 1, 6>>, categoria_id |-> 2,
            nombre_gasto_id |-> 2, descripcion |-> NullText,
            created_at |-> CreatedAt(2), updated_at |-> CreatedAt(2)])

InitReads ==
  /\ tz \in ServiceZones
  /\ now = MakeDay(2025, 1, 6) * MinutesPerDay + 720
  /\ categorias = SeedCategorias
  /\ nombres_gastos = SeedNombresGastos
  /\ gastos = SeedGastos
  /\ out = NoCall
  /\ proc = [p \in Procs |-> Idle]
  /\ serial = [SeedSerial EXCEPT !.gastos = 3]
  /\ issued = 0
  /\ requests = NoRequests
  /\ passed = NoRequests

ReadRequests(p) ==
  \/ getExpenseStatistics(p, <<2025, 1, 1>>, <<2025, 1, 6>>)
  \/ \E data \in CreateExpenseInputs : createExpense(p, data)
  \/ updateExpense(p, 1, [fecha |-> <<2024, 12, 30>>, categoria_id |-> 2])
  \/ deleteExpense(p, 1)

NextReads ==
  \E p \in Procs :
    \/ ReadRequests(p)
    \/ Expense_getStatistics(p)
    \/ Expense_getByCategory(p)
    \/ ExpenseSteps(p)

SpecReads == InitReads /\ [][NextReads]_vars

(***************************************************************************)
(* Dashboard specification: getDashboardSummary while an expense is        *)
(* deleted                                                                 *)
(***************************************************************************)
NextDashboard ==
  \E p \in Procs :
    \/ getDashboardSummary(p)
    \/ deleteExpense(p, 1)
    \/ ReadSteps(p)
    \/ getExpenseById(p)
    \/ Expense_delete(p)

SpecDashboard == InitReads /\ [][NextDashboard]_vars

(***************************************************************************)
(* Range specification: the read operations that take a date, a range or   *)
(* a month, on a store that does not change                                *)
(***************************************************************************)
RangeRequests(p) ==
  \/ \E d \in {r[1] : r \in RangeInputs} : getWeeklyExpenses(p, d)
  \/ \E r \in RangeInputs, o \in PageOptions :
       getExpensesByDateRange(p, r[1], r[2], o)
  \/ \E r \in RangeInputs : getExpenseStatistics(p, r[1], r[2])
  \/ \E m \in MonthInputs : getMonthlyExpenses(p, m)

NextRanges ==
  \E p \in Procs :
    \/ RangeRequests(p)
    \/ ReadSteps(p)

SpecRanges == InitReads /\ [][NextRanges]_vars

(***************************************************************************)
(* The amount of an expense over its whole range: POST /api/expenses and   *)
(* PUT /api/expenses/:id followed from the request body to the column      *)
(* gastos.monto, the other fields of the body being valid.  An amount is   *)
(* sign * (units + milli / 1000), a record, since the largest amount in    *)
(* cents is beyond the integers of the model checker.                      *)
(***************************************************************************)
Number(neg, units, milli) ==
  [nan |-> FALSE, neg |-> neg, units |-> units, milli |-> milli]

NotANumber == [nan |-> TRUE, neg |-> FALSE, units |-> 0, milli |-> 0]

IsZero(a) == a.units = 0 /\ a.milli = 0
Negative(a) == a.neg /\ ~IsZero(a)
MagnitudeLess(a, b) ==
  a.units < b.units \/ (a.units = b.units /\ a.milli < b.milli)

\* a < b and a <= b on JavaScript numbers: false when either is NaN
Less(a, b) ==
  /\ ~a.nan /\ ~b.nan
  /\ CASE Negative(a) /\ Negative(b) -> MagnitudeLess(b, a)
       [] Negative(a) -> TRUE
       [] Negative(b) -> FALSE
       [] OTHER -> MagnitudeLess(a, b)

LessOrEqual(a, b) == ~a.nan /\ ~b.nan /\ ~Less(b, a)

\* 0.01 and 99999999.99
MinMonto == Number(FALSE, 0, 10)
MaxMonto == Number(FALSE, MaxMontoUnits, 990)

\* req.body.monto: present is false when the body has no monto; numeric
\* says that its text is a decimal literal from end to end (12.5, '12.5');
\* value is what parseFloat makes of it, the leading number of '12abc' and
\* NaN of 'abc'
BodyMonto(present, numeric, value) ==
  [present |-> present, numeric |-> numeric, value |-> value]

NoMonto == BodyMonto(FALSE, FALSE, NotANumber)

\* a variant of isFloat that looks at the parsed number alone
isFloat_anyText(m, min, max) ==
  /\ LessOrEqual(min, m.value)
  /\ LessOrEqual(m.value, max)

\* validator's isFloat({ min, max }) on the text of the value
isFloat(m, min, max) ==
  /\ m.numeric
  /\ LessOrEqual(min, m.value)
  /\ LessOrEqual(m.value, max)

\* expenseValidation.create and expenseValidation.update on monto, with
\* handleValidationErrors: whether the request reaches the controller
expenseValidation(op, m) ==
  IF op = "createExpense"
  THEN m.present /\ isFloat(m, MinMonto, MaxMonto)
  ELSE m.present => isFloat(m, MinMonto, MaxMonto)

\* the amount of c hundredths above the units of a, carrying 100 hundredths
WithCents(a, c) ==
  IF c = 100 THEN Number(a.neg, a.units + 1, 0)
  ELSE Number(a.neg, a.units, c * 10)

\* Math.round(x * 100) / 100.  The product is a double: of an amount written
\* with a half cent it falls on either side of the half (1.005 * 100 is
\* 100.49999999999999, 0.125 * 100 is 12.5), so both neighbours are
\* possible results; -0 is 0
RoundedMonto(a) ==
  IF a.nan THEN {NotANumber}
  ELSE LET c    == a.milli \div 10
           rest == a.milli % 10
           Norm(x) == IF IsZero(x) THEN Number(FALSE, 0, 0) ELSE x
       IN  {Norm(WithCents(a, c + k)) :
              k \in IF rest < 5 THEN {0} ELSE IF rest > 5 THEN {1}
                    ELSE {0, 1}}

\* Expense.validateExpenseData(data): whether it refuses the amount
InvalidMonto(monto) ==
  monto.nan \/ LessOrEqual(monto, Number(FALSE, 0, 0)) \/ Less(MaxMonto, monto)

\* the column monto DECIMAL(10,2) NOT NULL with CHECK (monto > 0): whether
\* the database takes the value
ColumnTakes(monto) ==
  /\ ~monto.nan
  /\ monto.units <= MaxMontoUnits
  /\ Less(Number(FALSE, 0, 0), monto)

\* the response to a request and the amount written by it: <<>> when no row
\* was written or the amount of the row was left as it was
MontoResult(status, stored) == [status |-> status, stored |-> stored]

\* Expense.create / Expense.update with the amount the service passes:
\* validateExpenseData, then the INSERT or UPDATE
ExpenseWrite(op, monto) ==
  IF InvalidMonto(monto) THEN {MontoResult(400, <<>>)}
  ELSE {IF ColumnTakes(r)
        THEN MontoResult(IF op = "createExpense" THEN 201 ELSE 200, <<r>>)
        ELSE MontoResult(500, <<>>) : r \in RoundedMonto(monto)}

\* the route, ExpenseController and ExpenseService for the amount m of the
\* body: the responses the request can have
MontoResults(op, m) ==
  IF ~expenseValidation(op, m) THEN {MontoResult(400, <<>>)}
  ELSE IF ~m.present THEN {MontoResult(200, <<>>)}
  ELSE UNION {ExpenseWrite(op, r) : r \in RoundedMonto(m.value)}

MontoUnits == {0, 12, MaxMontoUnits, MaxMontoUnits + 1}
MontoMillis == {0, 4, 5, 6, 10, 125, 990, 994, 995, 999}

\* the amounts of the request bodies: numbers on both sides of zero, of the
\* cent and of the bound, '12abc', 'abc', and no amount
MontoBodies ==
  {BodyMonto(TRUE, TRUE, Number(neg, u, m)) :
     neg \in BOOLEAN, u \in MontoUnits, m \in MontoMillis}
  \cup {BodyMonto(TRUE, FALSE, Number(FALSE, 12, 0)),
        BodyMonto(TRUE, FALSE, NotANumber),
        NoMonto}

CallExpenseMonto(op, m) ==
  /\ out = NoCall
  /\ \E res \in MontoResults(op, m) :
       out' = [op |-> op, arg |-> m, res |-> res]
  /\ UNCHANGED limiter
  /\ UNCHANGED <<tz, now, tables, control>>

NextAmounts ==
  \/ \E m \in MontoBodies : CallExpenseMonto("createExpense", m)
  \/ \E m \in MontoBodies : CallExpenseMonto("updateExpense", m)

InitAmounts == InitCal /\ tz = 0

SpecAmounts == InitAmounts /\ [][NextAmounts]_vars

(***************************************************************************)
(* Date specification: createExpense and updateExpense with a date of the  *)
(* days around the current one                                             *)
(***************************************************************************)
\* the server's day is 2025-01-06: today, tomorrow and the day after
FechaInputs == {<<2025, 1, 6>>, <<2025, 1, 7>>, <<2025, 1, 8>>}

DateRequests(p) ==
  \/ \E f \in FechaInputs :
       createExpense(p, [fecha |-> f, categoria_id |-> 1,
                         nombre_gasto_id |-> 1, monto |-> 1500])
  \/ \E f \in FechaInputs : updateExpense(p, 1, [fecha |-> f])

NextDates ==
  \E p \in Procs :
    \/ DateRequests(p)
    \/ getExpenseById(p)
    \/ \E f \in {"categoria_id", "nombre_gasto_id"} :
         validateRelatedEntities(p, f)
    \/ Expense_categoryExists(p)
    \/ Expense_expenseNameExists(p)
    \/ Expense_insert(p)
    \/ Expense_update_findById(p)
    \/ Expense_update(p)
    \/ Expense_findByIdWithDetails(p)

SpecDates == InitReads /\ [][NextDates]_vars

(***************************************************************************)
(* Page specification: getExpensesByDateRange over the first week of       *)
(* January, page by page, with and without a category filter               *)
(***************************************************************************)
\* pages of one expense: the first and the second, of every category and of
\* category 1
CategoryPageOptions ==
  {[categoryId |-> c, limit |-> 1, page |-> pg] : c \in {0, 1}, pg \in 1..2}

NextPages ==
  \E p \in Procs :
    \/ \E o \in CategoryPageOptions :
         getExpensesByDateRange(p, <<2025, 1, 1>>, <<2025, 1, 6>>, o)
    \/ Expense_findByDateRange(p)
    \/ Expense_getStatistics(p)

SpecPages == InitReads /\ [][NextPages]_vars

(***************************************************************************)
(* Claims on the calendar utilities                                        *)
(***************************************************************************)
\* the Monday on or before date s, by the calendar alone
MondayOnOrBefore(s) ==
  LET n == DayNumber(s) IN CivilFromDays(n - ((n + 3) % 7))

\* C2: for every anchor date and every server zone, getWeekDates returns
\* weekStart = the Monday on or before the anchor and weekEnd = weekStart + 6
\* days.
C2_WeekStartIsMonday ==
  out.op = "getWeekDates" =>
    /\ out.res.weekStart = MondayOnOrBefore(out.arg)
    /\ out.res.weekEnd = AddDays(out.res.weekStart, 6)

\* C3: for every date string s and every server zone,
\* formatDateToString(parseDateString(s)) = s.
C3_FormatParseRoundTrip ==
  out.op = "formatParse" => out.res = out.arg

(***************************************************************************)
(* Claims on the reports                                                   *)
(***************************************************************************)
\* the expenses of the 7 buckets of a weekly result, bucket after bucket
RECURSIVE Bucketed(_, _)
Bucketed(e, n) ==
  IF n = 0 THEN <<>> ELSE Bucketed(e, n - 1) \o e.byDay[e.keys[n]]

C4_SevenConsecutiveKeys ==
  out.op = "findWeeklyExpenses" =>
    LET r == out.res
    IN  /\ Len(r.expenses.keys) = 7
        /\ r.expenses.keys = r.dates
        /\ \A i \in 1..7 : r.expenses.keys[i] = AddDays(r.weekStart, i - 1)
        /\ r.expenses.keys[7] = r.weekEnd

\* an empty week across the year boundary on a server east of UTC
C4_Witness ==
  /\ out.op = "findWeeklyExpenses"
  /\ tz > 0
  /\ out.res.totalExpenses = 0
  /\ out.res.weekStart[1] # out.res.weekEnd[1]
  /\ Len(out.res.expenses.keys) = 7

\* C5: for a valid range, findByDateRange without a limit returns exactly
\* the stored expenses dated within [start, end] (of the category asked
\* for, when one is given), each once.
C5_RangeIsInclusive ==
  (/\ out.op = "findByDateRange"
   /\ out.arg.options.limit = 0
   /\ validateDateRange(out.arg.startDate, out.arg.endDate, DefaultMaxDays,
                        now, tz).isValid) =>
    /\ out.res.ok
    /\ {out.res.rows[i].id : i \in 1..Len(out.res.rows)}
         = {id \in DOMAIN gastos :
              /\ DayNumber(out.arg.startDate) <= DayNumber(gastos[id].fecha)
              /\ DayNumber(gastos[id].fecha) <= DayNumber(out.arg.endDate)
              /\ (out.arg.options.categoryId # 0 =>
                    gastos[id].categoria_id = out.arg.options.categoryId)}
    /\ \A i, j \in 1..Len(out.res.rows) :
         out.res.rows[i].id = out.res.rows[j].id => i = j

\* a range whose first and last day both hold a returned expense, with an
\* expense of the day after its end left out
C5_Witness ==
  /\ out.op = "findByDateRange"
  /\ out.arg.options.limit = 0
  /\ out.res.ok
  /\ out.arg.startDate # out.arg.endDate
  /\ \E i \in 1..Len(out.res.rows) : out.res.rows[i].fecha = out.arg.endDate
  /\ \E id \in DOMAIN gastos :
       gastos[id].fecha = AddDays(out.arg.endDate, 1)

\* C10: for a valid range that holds no stored expense, getStatistics
\* succeeds with every count and every amount equal to 0 (none NaN).
C10_EmptyRangeStatisticsAreZero ==
  (/\ out.op = "getStatistics"
   /\ validateDateRange(out.arg.startDate, out.arg.endDate, DefaultMaxDays,
                        now, tz).isValid
   /\ ~\E id \in DOMAIN gastos :
         /\ DayNumber(out.arg.startDate) <= DayNumber(gastos[id].fecha)
         /\ DayNumber(gastos[id].fecha) <= DayNumber(out.arg.endDate)) =>
    /\ out.res.ok
    /\ out.res.totalExpenses = 0
    /\ out.res.totalAmount = Num(0, 1)
    /\ out.res.averageAmount = Num(0, 1)
    /\ out.res.minAmount = Num(0, 1)
    /\ out.res.maxAmount = Num(0, 1)
    /\ out.res.categoriesUsed = 0
    /\ out.res.expenseNamesUsed = 0

\* statistics of an empty range of a store that holds expenses elsewhere
C10_Witness ==
  /\ out.op = "getStatistics"
  /\ out.res.ok
  /\ out.res.totalExpenses = 0
  /\ gastos # EmptyTable

(***************************************************************************)
(* Claims on the write requests                                            *)
(***************************************************************************)
\* C6: in every reachable state, under any interleaving of the create,
\* update and delete requests, every stored expense refers to an existing
\* category and to an existing expense name.
C6_ReferentialIntegrity ==
  \A g \in DOMAIN gastos :
    /\ gastos[g].categoria_id \in DOMAIN categorias
    /\ gastos[g].nombre_gasto_id \in DOMAIN nombres_gastos

\* a category has been deleted, a createExpense that named it was refused,
\* and an expense is stored
C6_Witness ==
  /\ gastos # EmptyTable
  /\ \E p \in Procs :
       /\ proc[p].pc = "done"
       /\ proc[p].op = "createExpense"
       /\ proc[p].status = 400
       /\ proc[p].data.categoria_id \notin DOMAIN categorias

\* C7: updateExpense(id, data) with a subset of the fields changes only the
\* fields present in data and updated_at; every other field of the expense
\* (the stored date when fecha is omitted) and every other expense stay.
C7_UpdateChangesOnlyGivenFields ==
  [][\A p \in Procs :
       (/\ proc[p].pc = "update"
        /\ proc[p].op = "updateExpense"
        /\ proc'[p] # proc[p]
        /\ proc[p].id \in DOMAIN gastos)
       => \A g \in DOMAIN gastos :
            /\ g \in DOMAIN gastos'
            /\ \A f \in DOMAIN gastos[g] :
                 (g # proc[p].id
                    \/ (f \notin DOMAIN proc[p].data /\ f # "updated_at"))
                 => gastos'[g][f] = gastos[g][f]]_vars

\* the delete request q aims at a row that an expense references
ReferencedTarget(q) ==
  \/ q.op = "deleteCategory" /\ getExpenseCount(q.id) > 0
  \/ q.op = "deleteExpenseName" /\ getUsageCount(q.id) > 0

EqualIgnoringCase(table) ==
  \E i, j \in DOMAIN table :
    i # j /\ toLowerCase(table[i].nombre) = toLowerCase(table[j].nombre)

\* C9: in every reachable state no two categories have names that are
\* equal ignoring case, and no two expense names do, also when the
\* uniqueness check and the insert of two concurrent requests interleave.
C9_NamesUniqueIgnoringCase ==
  ~EqualIgnoringCase(categorias) /\ ~EqualIgnoringCase(nombres_gastos)

(***************************************************************************)
(* Claims on the category report and the service reports                   *)
(***************************************************************************)
\* C11: for a valid range, getByCategory returns exactly one row per
\* existing category and none for any other; a category without expenses
\* in the range has its row, with expenseCount, totalAmount and
\* averageAmount 0.
C11_OneRowPerCategory ==
  (out.op = "getByCategory" /\ out.res.ok) =>
    LET rows == out.res.rows
        InRange(c) ==
          {id \in DOMAIN gastos :
             /\ gastos[id].categoria_id = c
             /\ DateLE(out.arg.startDate, gastos[id].fecha)
             /\ DateLE(gastos[id].fecha, out.arg.endDate)}
    IN  /\ \A c \in DOMAIN categorias :
             Cardinality({i \in 1..Len(rows) : rows[i].categoria.id = c}) = 1
        /\ \A i \in 1..Len(rows) :
             /\ rows[i].categoria.id \in DOMAIN categorias
             /\ rows[i].expenseCount =
                  Cardinality(InRange(rows[i].categoria.id))
             /\ InRange(rows[i].categoria.id) = {} =>
                  /\ rows[i].expenseCount = 0
                  /\ rows[i].totalAmount = Num(0, 1)
                  /\ rows[i].averageAmount = Num(0, 1)

\* a report with a category that has expenses in the range and another
\* that has none
C11_Witness ==
  /\ out.op = "getByCategory"
  /\ out.res.ok
  /\ \E i, j \in 1..Len(out.res.rows) :
       out.res.rows[i].expenseCount > 0 /\ out.res.rows[j].expenseCount = 0

\* the statistics responses of finished getExpenseStatistics calls
StatisticsResponses(quiet) ==
  {proc[p].result : p \in {p \in Procs :
     /\ proc[p].pc = "done"
     /\ proc[p].op = "getExpenseStatistics"
     /\ proc[p].status = 200
     /\ proc[p].quiet = quiet}}

\* the totals of a statistics response agree with its category breakdown
TotalsAgree(r) ==
  LET rows == r.categoryBreakdown
  IN  /\ r.totalExpenses =
           SumSeq([i \in 1..Len(rows) |-> rows[i].expenseCount])
      /\ ~r.totalAmount.nan /\ r.totalAmount.den = 1
      /\ \A i \in 1..Len(rows) :
           ~rows[i].totalAmount.nan /\ rows[i].totalAmount.den = 1
      /\ r.totalAmount.num =
           SumSeq([i \in 1..Len(rows) |-> rows[i].totalAmount.num])

\* C12: when the stored tables are the same at the two reads of a
\* getExpenseStatistics call (no write was applied between them), the
\* response's totalExpenses is the sum of expenseCount and its totalAmount
\* the sum of totalAmount over categoryBreakdown.
C12_TotalsAgreeWithoutWriteBetween ==
  \A r \in StatisticsResponses(TRUE) : TotalsAgree(r)

\* a call answered while another request was writing, with expenses in
\* both categories of its breakdown
C12_Witness ==
  \E r \in StatisticsResponses(TRUE) :
    /\ r.totalExpenses >= 2
    /\ \A i \in 1..Len(r.categoryBreakdown) :
         r.categoryBreakdown[i].expenseCount >= 1
    /\ \E p \in Procs : proc[p].pc \notin {"idle", "done", "reads"}

\* (not a claim) every statistics response agrees, with or without a write
\* between its reads: violated, which shows what the premise of C12 is for
TotalsAlwaysAgree ==
  \A r \in StatisticsResponses(FALSE) : TotalsAgree(r)

\* the finished getDashboardSummary calls
Dashboards == {proc[p] : p \in {p \in Procs :
                 proc[p].pc = "done" /\ proc[p].op = "getDashboardSummary"}}

\* C13: a getDashboardSummary call of which a sub-report (current week,
\* current month, recent expenses) failed fails with the error of a failed
\* sub-report and returns no summary; a call that returns a summary has all
\* three parts, none of them from a failed sub-report.
C13_DashboardAllOrNothing ==
  \A d \in Dashboards :
    IF d.failed = {}
      THEN /\ d.status = 200
           /\ DOMAIN d.result = {"thisWeek", "thisMonth", "recentExpenses"}
      ELSE /\ \E f \in d.failed : d.status = f[2]
           /\ "result" \notin DOMAIN d

\* a call that failed on a query of one sub-report after another sub-report
\* had been answered
C13_Witness ==
  \E d \in Dashboards :
    /\ d.status = 500
    /\ \E f \in d.failed, a \in d.answered : a[1] # f[1]

(***************************************************************************)
(* Claims on the validation of ranges, dates, months and amounts           *)
(***************************************************************************)
\* the errors of the last validateDateRange call
Errors == {out.res.errors[i] : i \in 1..Len(out.res.errors)}

\* C14: validateDateRange of a start strictly after its end is not valid and
\* reports 'Start date must be before or equal to end date'; a start equal
\* to its end does not get that error.
C14_ReversedRangeRefused ==
  out.op = "validateDateRange" =>
    LET a == out.arg
        reversed == DayNumber(a.startDate) > DayNumber(a.endDate)
    IN  /\ reversed => ~out.res.isValid
        /\ reversed <=>
             "Start date must be before or equal to end date" \in Errors

\* a reversed range refused
C14_Witness ==
  /\ out.op = "validateDateRange"
  /\ DayNumber(out.arg.startDate) > DayNumber(out.arg.endDate)
  /\ ~out.res.isValid

\* a range of one day accepted
SameDayRangeAccepted ==
  /\ out.op = "validateDateRange"
  /\ out.arg.startDate = out.arg.endDate
  /\ out.res.isValid

\* C15: validateDateRange(start, end, maxDays) reports the range-too-large
\* error exactly when the number of days from start to end exceeds maxDays,
\* in every zone, whether or not the clocks change within the range.
C15_TooLargeExactlyAboveMaxDays ==
  out.op = "validateDateRange" =>
    LET a == out.arg
    IN  "Date range cannot exceed maxDays days" \in Errors
          <=> DayNumber(a.endDate) - DayNumber(a.startDate) > a.maxDays

\* C16: validateDateRange reports the start-in-future error exactly when
\* start is a calendar day after the server's current local day.
C16_FutureStartRefused ==
  out.op = "validateDateRange" =>
    LET today == LocalTime(now, tz) \div MinutesPerDay
    IN  "Start date cannot be in the future" \in Errors
          <=> DayNumber(out.arg.startDate) > today

\* a start on the day after the current local day refused, on a server
\* whose local day is not the UTC day
C16_Witness ==
  /\ out.op = "validateDateRange"
  /\ DayNumber(out.arg.startDate) = LocalTime(now, tz) \div MinutesPerDay + 1
  /\ LocalTime(now, tz) \div MinutesPerDay # now \div MinutesPerDay
  /\ "Start date cannot be in the future" \in Errors

\* s has the form YYYY-MM-DD and names a day of the calendar
IsCalendarDate(s) ==
  /\ Len(s) = 3
  /\ s[2] \in 1..12
  /\ s[3] >= 1
  /\ CivilFromDays(DayNumber(s)) = s

\* C17: in every server zone isValidDateString(s) is true exactly when s has
\* the form YYYY-MM-DD and names a real calendar date.
C17_ValidExactlyRealDates ==
  out.op = "isValidDateString" => (out.res <=> IsCalendarDate(out.arg))

\* the range a request asks for: its two dates, or the first and the last
\* day of its month
RangeAsked(q) ==
  IF q.op = "getMonthlyExpenses"
    THEN <<MonthRange(q.data.month, now, tz).startDate,
           MonthRange(q.data.month, now, tz).endDate>>
    ELSE <<q.data.startDate, q.data.endDate>>

\* the requests received that ask for a range
RangeRequested ==
  {p \in Procs :
     /\ proc[p].pc # "idle"
     /\ \/ proc[p].op \in {"getExpensesByDateRange", "getExpenseStatistics"}
        \/ proc[p].op = "getMonthlyExpenses" /\ Len(proc[p].data.month) = 2}

\* the range is of a bad format, reversed, longer than 365 days, or starts
\* after the server's current day
FailsValidation(r) ==
  \/ ~IsCalendarDate(r[1])
  \/ ~IsCalendarDate(r[2])
  \/ DayNumber(r[1]) > DayNumber(r[2])
  \/ DayNumber(r[2]) - DayNumber(r[1]) > DefaultMaxDays
  \/ DayNumber(r[1]) > LocalTime(now, tz) \div MinutesPerDay

\* C18: a request whose range fails validation (bad format, start after
\* end, more than 365 days, start in the future) has failed with 400 and
\* has sent no query to the store, at every moment after it is received.
C18_InvalidRangeSendsNoQuery ==
  \A p \in RangeRequested :
    FailsValidation(RangeAsked(proc[p])) =>
      /\ proc[p].pc = "done"
      /\ proc[p].status = 400
      /\ proc[p].sent = 0

\* on a server west of UTC, where real dates pass the format check: a
\* request for a range that starts tomorrow was refused, and a request for
\* a valid range is waiting for its queries
C18_Witness ==
  /\ tz < 0
  /\ \E p \in RangeRequested :
       /\ IsCalendarDate(RangeAsked(proc[p])[1])
       /\ IsCalendarDate(RangeAsked(proc[p])[2])
       /\ DayNumber(RangeAsked(proc[p])[1])
            > LocalTime(now, tz) \div MinutesPerDay
       /\ proc[p].pc = "done" /\ proc[p].status = 400 /\ proc[p].sent = 0
  /\ \E p \in RangeRequested : proc[p].pc = "reads"

\* the number of days of month m of year y, by the calendar's leap-year rule
DaysInMonth(y, m) ==
  IF m = 2
    THEN IF (y % 4 = 0 /\ y % 100 # 0) \/ y % 400 = 0 THEN 29 ELSE 28
    ELSE IF m \in {4, 6, 9, 11} THEN 30 ELSE 31

\* the first and the last calendar day of month m of year y
MonthOf(y, m) ==
  [first |-> <<y, m, 1>>, last |-> <<y, m, DaysInMonth(y, m)>>]

\* C19: getMonthlyExpenses('YYYY-MM') asks for the first and the last
\* calendar day of that month, and for the current month when no month is
\* given; getMonthDates(anchor) returns the same first and last day for
\* every anchor of the month, in every server zone.
C19_MonthBounds ==
  /\ out.op = "getMonthlyExpenses" =>
       LET today == CivilFromDays(LocalTime(now, tz) \div MinutesPerDay)
           ym    == IF out.arg = <<>> THEN <<today[1], today[2]>> ELSE out.arg
       IN  /\ out.res.startDate = MonthOf(ym[1], ym[2]).first
           /\ out.res.endDate = MonthOf(ym[1], ym[2]).last
  /\ out.op = "getMonthDates" =>
       /\ out.res.monthStart = MonthOf(out.arg[1], out.arg[2]).first
       /\ out.res.monthEnd = MonthOf(out.arg[1], out.arg[2]).last

\* s is a whole number of cents at most half a cent from a
RoundedToCentsOf(a, s) ==
  LET d == (s.units - a.units) * 1000 + s.milli - a.milli
  IN  /\ ~a.nan /\ ~s.nan
      /\ s.neg = a.neg
      /\ s.units - a.units \in {0, 1}
      /\ d \in -5..5
      /\ s.milli % 10 = 0

\* the amount is refused by the claim: not a number, not positive once
\* rounded, or above 99,999,999.99
MontoToRefuse(m) ==
  \/ ~m.numeric
  \/ m.value.nan
  \/ Less(MaxMonto, m.value)
  \/ \E s \in {WithCents(m.value, c) : c \in 0..100} :
       RoundedToCentsOf(m.value, s) /\ ~Less(Number(FALSE, 0, 0), s)

LargestAmountStored ==
  /\ out.op = "updateExpense"
  /\ out.arg.value = MaxMonto
  /\ out.res = MontoResult(200, <<MaxMonto>>)

(***************************************************************************)
(* Claims on the date of an expense                                        *)
(***************************************************************************)
\* the number of days from the server's current day to date s
DaysAhead(s) == DayNumber(s) - DayNumber(formatDateToString(now, tz))

\* C21: a createExpense or updateExpense that supplies a date is refused
\* exactly when the date is more than one day after the current day: with
\* today or tomorrow it succeeds, with a later day it ends with 400.
C21_DateRefusedExactlyBeyondTomorrow ==
  \A p \in Procs :
    (/\ proc[p].pc = "done"
     /\ proc[p].op \in {"createExpense", "updateExpense"}
     /\ Has(proc[p].data, "fecha"))
    => IF DaysAhead(proc[p].data.fecha) <= 1
       THEN proc[p].status \in {200, 201}
       ELSE proc[p].status = 400

\* an expense dated today was stored, and one dated two days ahead refused
TodayStoredLaterRefused ==
  \E p, r \in Procs :
    /\ proc[p].pc = "done" /\ proc[p].op = "createExpense"
    /\ proc[p].status = 201 /\ DaysAhead(proc[p].data.fecha) = 0
    /\ proc[r].pc = "done" /\ proc[r].status = 400
    /\ DaysAhead(proc[r].data.fecha) = 2

(***************************************************************************)
(* Claims on the deletion of a category                                    *)
(***************************************************************************)
\* this step leaves every expense name in place and changes of it at most
\* a suggestion of category c, to NULL
OnlySuggestionsOfNulled(c) ==
  /\ DOMAIN nombres_gastos' = DOMAIN nombres_gastos
  /\ \A n \in DOMAIN nombres_gastos :
       /\ \A f \in DOMAIN nombres_gastos[n] \ {"categoria_sugerida_id"} :
            nombres_gastos'[n][f] = nombres_gastos[n][f]
       /\ \/ nombres_gastos'[n].categoria_sugerida_id
               = nombres_gastos[n].categoria_sugerida_id
          \/ /\ nombres_gastos[n].categoria_sugerida_id = c
             /\ nombres_gastos'[n].categoria_sugerida_id = NullId

WholeCents(x) == ~x.nan /\ x.den = 1

\* C23: every monetary aggregate the reports return is a whole number of
\* cents: weekTotal of findWeeklyExpenses, totalAmount, averageAmount,
\* minAmount and maxAmount of getStatistics, totalAmount and averageAmount
\* of each row of getByCategory.
C23_AggregatesAreWholeCents ==
  /\ out.op = "findWeeklyExpenses" => out.res.weekTotal \in Int
  /\ (out.op = "getStatistics" /\ out.res.ok) =>
       /\ WholeCents(out.res.totalAmount)
       /\ WholeCents(out.res.averageAmount)
       /\ WholeCents(out.res.minAmount)
       /\ WholeCents(out.res.maxAmount)
  /\ (out.op = "getByCategory" /\ out.res.ok) =>
       \A i \in DOMAIN out.res.rows :
         /\ WholeCents(out.res.rows[i].totalAmount)
         /\ WholeCents(out.res.rows[i].averageAmount)

\* C24: getDashboardSummary never ends with a 400 error: the ranges it
\* derives for the week, the month and the last 30 days pass its own
\* validation at every instant and in every server zone, so it returns a
\* summary whenever no query fails.
C24_DashboardNeverRefusesItself ==
  \A p \in Procs :
    (proc[p].pc = "done" /\ proc[p].op = "getDashboardSummary")
    => /\ proc[p].status # 400
       /\ (\A f \in proc[p].failed : f[2] # 500) => proc[p].status = 200

\* west of UTC the summary is returned
DashboardReturnedWestOfUTC ==
  \E p \in Procs :
    /\ proc[p].pc = "done" /\ proc[p].op = "getDashboardSummary"
    /\ proc[p].status = 200 /\ tz < 0

(***************************************************************************)
(* Claims on the pages of getExpensesByDateRange                           *)
(***************************************************************************)
\* the number of stored expenses in the range and the category asked for
Matching(data) ==
  Cardinality({id \in DOMAIN gastos :
                 /\ DateLE(data.startDate, gastos[id].fecha)
                 /\ DateLE(gastos[id].fecha, data.endDate)
                 /\ (data.options.categoryId # 0 =>
                       gastos[id].categoria_id = data.options.categoryId)})

\* C25: a getExpensesByDateRange that returns, with no write meanwhile, has
\* pagination.total = the number of stored expenses in the range and the
\* category asked for, totalPages = ceil(total / limit), and hasMore true
\* exactly when matching expenses remain after the page returned.
C25_PaginationCountsMatching ==
  \A p \in Procs :
    (/\ proc[p].pc = "done"
     /\ proc[p].op = "getExpensesByDateRange"
     /\ proc[p].status = 200)
    => LET pg == proc[p].result.pagination
           m  == Matching(proc[p].data)
       IN  /\ pg.total = m
           /\ pg.totalPages * pg.limit >= m
           /\ (pg.totalPages - 1) * pg.limit < m
           /\ pg.hasMore
                = ((pg.page - 1) * pg.limit + Len(proc[p].result.expenses) < m)

\* without a category filter the pages are counted right: page 1 of 2
UnfilteredPageCounted ==
  \E p \in Procs :
    /\ proc[p].pc = "done" /\ proc[p].op = "getExpensesByDateRange"
    /\ proc[p].status = 200
    /\ proc[p].data.options.categoryId = 0
    /\ proc[p].result.pagination.totalPages = 2
    /\ proc[p].result.pagination.hasMore

\* C26: a deleteCategory(c) that ends in an error has changed nothing in
\* the store, also when a concurrent createExpense or updateExpense refers
\* to c: the step that refuses it leaves the tables as they are, and the
\* request has not set the suggested category of any expense name to NULL
\* before.
C26_FailedDeleteChangesNothing ==
  [][\A p \in Procs :
       (/\ proc[p].pc \notin {"idle", "done"}
        /\ proc[p].op = "deleteCategory"
        /\ proc'[p].pc = "done"
        /\ proc'[p].status # 200)
       => /\ UNCHANGED tables
          /\ Has(proc[p].cur, "updated") => proc[p].cur.updated = {}]_vars

\* a deleteCategory was refused at the service's check, before any write
DeleteRefusedBeforeAnyWrite ==
  \E p \in Procs :
    /\ proc[p].pc = "done" /\ proc[p].op = "deleteCategory"
    /\ proc[p].status = 400
    /\ nombres_gastos = SeedNombresGastos

(***************************************************************************)
(* Delete specification: deleteExpense and bulkDeleteExpenses, two tasks   *)
(***************************************************************************)
\* the ids of deleteExpense: a stored expense and one that never existed
DeleteIds == {1, 3}

\* the bodies of DELETE /api/expenses/bulk: none, a repeated id, ids of
\* stored expenses around one that never existed
BulkIds == {<<>>, <<1, 1>>, <<3, 1, 2>>}

NextDeletes ==
  \E p \in Procs :
    \/ \E id \in DeleteIds : deleteExpense(p, id)
    \/ \E ids \in BulkIds : bulkDeleteExpenses(p, ids)
    \/ getExpenseById(p)
    \/ Expense_delete(p)
    \/ bulkDeleteExpenses_catch(p)

SpecDeletes == InitReads /\ [][NextDeletes]_vars

(***************************************************************************)
(* Claims on deleting expenses                                             *)
(***************************************************************************)
\* the only two requests so far are deleteExpense(id), one per task, and
\* both are answered
BothDeleted(id) ==
  /\ issued = 2
  /\ \A p \in Procs :
       proc[p].pc = "done" /\ proc[p].op = "deleteExpense" /\ proc[p].id = id

\* task p's deleteExpense is answered in this step
DeleteAnswered(p) ==
  /\ proc[p].pc \in {"getExpenseById", "delete"}
  /\ proc[p].op = "deleteExpense"
  /\ proc'[p].pc = "done"

\* C27: two deleteExpense(id) of a stored expense, in any interleaving of
\* their existence checks and DELETEs, end with one 200 and one 404, the
\* expense gone and the other expenses as they were; of an id that was
\* never stored both end with 404 and the store as it was.  Each
\* deleteExpense that answers 404 changed nothing, each that answers 200
\* removed exactly its expense.
C27_ConcurrentDeleteSucceedsOnce ==
  /\ [](\A id \in DeleteIds :
          BothDeleted(id) =>
            IF id \in DOMAIN SeedGastos
            THEN /\ {proc[p].status : p \in Procs} = {200, 404}
                 /\ gastos = Without(SeedGastos, id)
            ELSE /\ {proc[p].status : p \in Procs} = {404}
                 /\ gastos = SeedGastos)
  /\ [][\A p \in Procs :
          DeleteAnswered(p) =>
            \/ /\ proc'[p].status = 200
               /\ proc[p].id \in DOMAIN gastos
               /\ gastos' = Without(gastos, proc[p].id)
            \/ /\ proc'[p].status = 404
               /\ proc[p].id \notin DOMAIN gastos
               /\ UNCHANGED tables]_vars

\* both deleteExpense(1) passed the existence check while the expense was
\* stored: one has deleted it and answered 200, the other is at its DELETE
C27_Witness ==
  /\ issued = 2
  /\ 1 \notin DOMAIN gastos
  /\ \E p, r \in Procs :
       /\ proc[p].pc = "done" /\ proc[p].op = "deleteExpense"
       /\ proc[p].id = 1 /\ proc[p].status = 200
       /\ proc[r].pc = "delete" /\ proc[r].op = "deleteExpense"
       /\ proc[r].id = 1

\* how many elements of the sequence s are x
Count(s, x) == Cardinality({i \in DOMAIN s : s[i] = x})

\* task p's bulkDeleteExpenses is in its loop
BulkInLoop(p) ==
  /\ proc[p].pc \in {"getExpenseById", "delete"}
  /\ proc[p].op = "bulkDeleteExpenses"

\* the results of task p's bulkDeleteExpenses after this step
BulkResultsAfter(p) ==
  IF proc'[p].pc = "done" THEN proc'[p].result ELSE proc'[p].cur

\* this step pushed id to results[list] of task p and nothing to the other
\* two lists
BulkPushed(p, list, id) ==
  /\ BulkResultsAfter(p)[list] = Append(proc[p].cur[list], id)
  /\ \A l \in {"errors", "deleted", "notFound"} \ {list} :
       BulkResultsAfter(p)[l] = proc[p].cur[l]

RepeatedIdNotFound ==
  \E p \in Procs :
    /\ proc[p].pc = "done" /\ proc[p].op = "bulkDeleteExpenses"
    /\ proc[p].data = <<1, 1>>
    /\ proc[p].result = [errors |-> <<>>, deleted |-> <<1>>,
                         notFound |-> <<1>>]

(***************************************************************************)
(* utils/ApiError.js and middleware/errorHandler.js                        *)
(***************************************************************************)
\* the static methods class ApiError defines
ApiErrorStatics ==
  {"badRequest", "unauthorized", "forbidden", "notFound", "conflict",
   "unprocessableEntity", "internal", "database", "fromValidationResults"}

\* new ApiError(message, statusCode)
ApiError(message, statusCode) ==
  [statusCode |-> statusCode, message |-> message, isApiError |-> TRUE]

\* the TypeError of a call of something that is no function
TypeError(message) == [message |-> message, isApiError |-> FALSE]

\* ApiError.internal(message)
ApiError_internal(message) == ApiError(message, 500)

\* what evaluating ApiError.error(message, statusCode) throws: the class
\* has no static method of that name, so the call itself fails
ApiError_error(message, statusCode) ==
  IF "error" \in ApiErrorStatics THEN ApiError(message, statusCode)
  ELSE TypeError("ApiError.error is not a function")

\* config.isDevelopment where the limiter is mounted: index.js mounts it
\* only when config.isProduction
isDevelopment == FALSE

\* convertToApiError(error) for an error with no code and no array; one
\* with a status keeps it, any other becomes ApiError.internal
convertToApiError(error) ==
  IF Has(error, "status") THEN ApiError(error.message, error.status)
  ELSE ApiError_internal(IF isDevelopment THEN error.message
                         ELSE "Internal Server Error")

\* errorHandler(error, req, res, next): the status and the message of the
\* response
errorHandler(error) ==
  LET apiError == IF error.isApiError THEN error
                  ELSE convertToApiError(error)
  IN  [ok |-> FALSE, statusCode |-> apiError.statusCode,
       message |-> apiError.message]

(***************************************************************************)
(* middleware/validation.js: basicRateLimit                                *)
(***************************************************************************)
\* req.ip of the requests: none, and one address
Ips == {"", "10.0.0.1"}

\* const clientId = req.ip || 'unknown'
clientId(ip) == IF ip = "" THEN "unknown" ELSE ip

\* timestamps.filter(ts => ts > windowStart)
validTimestamps(timestamps, windowStart) ==
  SelectSeq(timestamps, LAMBDA ts : ts > windowStart)

\* the Map after the loop "Clean old entries"
CleanOldEntries(windowStart) ==
  LET kept == {ip \in DOMAIN requests :
                 validTimestamps(requests[ip], windowStart) # <<>>}
  IN  [ip \in kept |-> validTimestamps(requests[ip], windowStart)]

\* validRequests.length > maxRequests: a limit that lets one request more
\* through
limitReached_late(validRequests) == Len(validRequests) > maxRequests

\* validRequests.length >= maxRequests
limitReached(validRequests) == Len(validRequests) >= maxRequests

\* the middleware basicRateLimit(maxRequests, windowMs) returns, called for
\* a request of this ip; a throw goes to errorHandler
basicRateLimit(ip) ==
  LET client         == clientId(ip)
      windowStart    == now - windowMs
      cleaned        == CleanOldEntries(windowStart)
      clientRequests == IF client \in DOMAIN cleaned THEN cleaned[client]
                        ELSE <<>>
      validRequests  == validTimestamps(clientRequests, windowStart)
  IN  /\ IF limitReached(validRequests)
         THEN /\ requests' = cleaned
              /\ passed' = passed
              /\ out' = [op |-> "basicRateLimit", arg |-> client,
                         res |-> errorHandler(
                                   ApiError_error("Too many requests",
                                                  429))]
         ELSE /\ requests' = [c \in DOMAIN cleaned \cup {client} |->
                                IF c = client THEN Append(validRequests, now)
                                ELSE cleaned[c]]
              /\ passed' = [c \in DOMAIN passed \cup {client} |->
                              IF c = client
                              THEN Append(IF c \in DOMAIN passed
                                          THEN passed[c] ELSE <<>>, now)
                              ELSE passed[c]]
              /\ out' = [op |-> "basicRateLimit", arg |-> client,
                         res |-> [ok |-> TRUE]]
      /\ UNCHANGED <<tz, now, tables, control>>

\* Date.now() moves on
Tick ==
  /\ now < MakeDay(2025, 1, 6) * MinutesPerDay + 720 + MaxElapsed
  /\ now' = now + 1
  /\ UNCHANGED <<limiter, tz, tables, out, control>>

NextLimit ==
  \/ \E ip \in Ips : basicRateLimit(ip)
  \/ Tick

\* the limiter reads no calendar date: one server zone
InitLimit == InitReads /\ tz = 60

SpecLimit == InitLimit /\ [][NextLimit]_vars

(***************************************************************************)
(* Claims on the rate limiter                                              *)
(***************************************************************************)
\* the instants at which requests of this client were handed to next()
PassedOf(client) == IF client \in DOMAIN passed THEN passed[client] ELSE <<>>

\* how many requests of this client were passed on in the window of length
\* windowMs that ends at instant t
PassedInWindow(client, t) ==
  Cardinality({i \in DOMAIN PassedOf(client) :
                 t - windowMs < PassedOf(client)[i]
                   /\ PassedOf(client)[i] <= t})

\* C29: no window of length windowMs holds more than maxRequests passed
\* requests of one client.  The middleware decides on the client's own
\* passed requests of the last windowMs alone, whatever other clients did
\* and whatever is older: it refuses exactly when they are maxRequests,
\* and a refusal is recorded neither in the Map nor as passed.
C29_AtMostMaxRequestsPerWindow ==
  /\ [](\A ip \in Ips : \A i \in DOMAIN PassedOf(clientId(ip)) :
          PassedInWindow(clientId(ip), PassedOf(clientId(ip))[i])
            <= maxRequests)
  /\ [][\A ip \in Ips :
          basicRateLimit(ip) =>
            LET client == clientId(ip)
            IN  /\ \A c \in DOMAIN passed \ {client} :
                     c \in DOMAIN passed' /\ passed'[c] = passed[c]
                /\ IF PassedInWindow(client, now) >= maxRequests
                   THEN /\ ~out'.res.ok
                        /\ passed' = passed
                        /\ requests'[client]
                             = validTimestamps(requests[client],
                                               now - windowMs)
                   ELSE /\ out'.res.ok
                        /\ passed'[client] = Append(PassedOf(client), now)
                        /\ requests'[client][Len(requests'[client])] = now]_vars

\* a client that had used its allowance passed again once its old requests
\* had left the window, while the other client used its own allowance
C29_Witness ==
  /\ out.op = "basicRateLimit" /\ out.res.ok
  /\ Len(PassedOf(out.arg)) > maxRequests
  /\ \E c \in DOMAIN passed \ {out.arg} : Len(passed[c]) = maxRequests
  /\ PassedInWindow(out.arg, now) = 1

\* C30: a request refused by basicRateLimit is answered with status 429 and
\* the message 'Too many requests'
C30_RefusedWith429 ==
  (out.op = "basicRateLimit" /\ ~out.res.ok)
    => out.res.statusCode = 429 /\ out.res.message = "Too many requests"

\* a request is refused while the client has maxRequests requests in the
\* window
RateLimitRefused ==
  /\ out.op = "basicRateLimit" /\ ~out.res.ok
  /\ PassedInWindow(out.arg, now) = maxRequests

====
